---- MODULE Spec2Model ----
(***************************************************************************)
(* A model of the trinkets storage and materialization engine:             *)
(*   - the event model and the pure materializer (adt.ts,                  *)
(*     domain_materialize.ts),                                             *)
(*   - the ready() query (query.ts),                                       *)
(*   - the append path shared by both JSONL stores and the incremental     *)
(*     (Heads V2) store's materialize() with its snapshot and offset       *)
(*     files (integrity.ts, lines 358-934).                                *)
(*                                                                         *)
(* Abstractions.  A log file is the sequence of its lines; an offset or a  *)
(* size counts lines (the store's own writer always writes whole lines).   *)
(* The adjacency Maps are functions with an explicit domain, so a key      *)
(* bound to the empty list differs from an absent key; the issues Map is   *)
(* the sequence of its values in insertion order.  A property that is      *)
(* absent and one that is undefined are both an absent key, which is what  *)
(* the JSON round trip of a log line or a snapshot makes of them.          *)
(***************************************************************************)
EXTENDS Integers, Sequences, FiniteSets, TLC

VARIABLES
  g,            \* PureSpec/QuerySpec: the Graph State built so far
  hist,         \* PureSpec/QuerySpec: the events applied to reach g, in order
  issuesFile,   \* issues.jsonl: its lines
  linksFile,    \* links.jsonl: its lines
  stateFile,    \* state.json
  metaFile,     \* heads.json
  stateTmp,     \* state.json.tmp
  metaTmp,      \* heads.json.tmp
  lockOwner,    \* per locked file: the holder of its exclusive advisory lock
  apc,          \* per append() caller: where its call stands
  aev,          \* per append() caller: the event being appended
  ares,         \* per append() caller: the result of the call in progress or last returned
  mpc,          \* per materialize() caller: where its call stands
  mloc,         \* per materialize() caller: the call's local variables
  mres,         \* per materialize() caller: the result last returned
  quota,        \* calls and I/O faults still allowed, callers taking part
  acked,        \* history: the events whose append() returned ok, in return order
  track,        \* history: what has happened so far (faults, overlapping calls)
  retry,        \* RetrySpec: the withRetry call in progress or last returned
  breaker,      \* BreakerSpec: the CircuitBreaker object's fields, once constructed
  bcall,        \* BreakerSpec: per execute() caller, where its call stands
  now,          \* BreakerSpec: the value Date.now() returns
  btrack,       \* history: the execute() calls begun, the operation failures in a row
  eventLog,     \* EmbedSpec: the events opts.store holds, in append order
  cache,        \* EmbedSpec: what opts.cache holds, if makeTrinkets was given one
  inMemoryGraph,        \* EmbedSpec: makeTrinkets' inMemoryGraph
  inflightMaterialize,  \* EmbedSpec: makeTrinkets' inflightMaterialize
  tcall,        \* EmbedSpec: per caller of the embedding API, where its call stands
  replay,       \* ReplaySpec: the calls of materializeFromEvents(hist), one after another
  ttrack        \* history: the mutations that returned ok, the reads begun, the faults

pureVars == <<g, hist>>

fileVars == <<issuesFile, linksFile>>

snapVars == <<stateFile, metaFile, stateTmp, metaTmp>>

appendVars == <<lockOwner, apc, aev, ares, acked>>

matVars == <<mpc, mloc, mres>>

storeVars == <<fileVars, snapVars, appendVars, matVars, quota, track>>

breakerVars == <<breaker, bcall, now, btrack>>

embedVars == <<eventLog, cache, inMemoryGraph, inflightMaterialize, tcall, ttrack>>

libVars == <<retry, breakerVars, embedVars, replay>>

\* all but the variables of withRetry, of the CircuitBreaker, of makeTrinkets
exceptRetry == <<pureVars, storeVars, breakerVars, embedVars, replay>>

exceptBreaker == <<pureVars, storeVars, retry, embedVars, replay>>

exceptEmbed == <<pureVars, storeVars, retry, breakerVars, replay>>

vars == <<pureVars, storeVars, libVars>>

----------------------------------------------------------------------------
(* Maps *)

EmptyMap == [k \in {} |-> k]

MapGet(m, k, dflt) == IF k \in DOMAIN m THEN m[k] ELSE dflt

MapSet(m, k, v) == [x \in (DOMAIN m) \cup {k} |-> IF x = k THEN v ELSE m[x]]

\* { ...cur, ...patch }: the keys of both, the patch's value where it has one
Spread(cur, patch) ==
  [k \in (DOMAIN cur) \cup (DOMAIN patch) |->
     IF k \in DOMAIN patch THEN patch[k] ELSE cur[k]]

----------------------------------------------------------------------------
(* Event model *)

EmptyState == [issues |-> <<>>, outgoing |-> EmptyMap, incoming |-> EmptyMap]

NewIssue(id, title, kind, priority, status, at) ==
  [id |-> id, title |-> title, kind |-> kind, priority |-> priority,
   status |-> status, labels |-> <<>>, createdAt |-> at, updatedAt |-> at]

NewLink(from, to, type, at) ==
  [from |-> from, to |-> to, type |-> type, createdAt |-> at]

IssueCreated(issue) == [_type |-> "IssueCreated", issue |-> issue]

IssuePatched(id, patch, at) ==
  [_type |-> "IssuePatched", id |-> id, patch |-> patch, updatedAt |-> at]

IssueStatusSet(id, status, at) ==
  [_type |-> "IssueStatusSet", id |-> id, status |-> status, at |-> at]

LinkAdded(link) == [_type |-> "LinkAdded", link |-> link]

LinkRemoved(from, to, type, at) ==
  [_type |-> "LinkRemoved", from |-> from, to |-> to, type |-> type, at |-> at]

----------------------------------------------------------------------------
(* Materializer *)

\* The issues Map is the sequence of its values in insertion order; an
\* issue's key is its id.
HasIssue(issues, id) == \E i \in 1..Len(issues) : issues[i].id = id

GetIssue(issues, id) == issues[CHOOSE i \in 1..Len(issues) : issues[i].id = id]

\* a set that leaves a present key's value alone
SetIssueOnce(issues, id, v) == IF HasIssue(issues, id) THEN issues ELSE Append(issues, v)

\* Map.set: a present key keeps its place, a new key goes last
SetIssue(issues, id, v) ==
  IF HasIssue(issues, id)
  THEN [i \in 1..Len(issues) |-> IF issues[i].id = id THEN v ELSE issues[i]]
  ELSE Append(issues, v)

IssueIds(gs) == {gs.issues[i].id : i \in 1..Len(gs.issues)}

\* an IssueStatusSet that stamps closedAt whatever the new status
SetStatusClosing(cur, e) ==
  Spread(cur, [status |-> e.status, updatedAt |-> e.at, closedAt |-> e.at])

SetStatusOf(cur, e) ==
  LET base == Spread(cur, [status |-> e.status, updatedAt |-> e.at])
  IN  IF e.status = "done" THEN Spread(base, [closedAt |-> e.at])
      ELSE base   \* closedAt: cur.closedAt, absent when cur has none

\* a duplicate check on outgoing that never finds one
hasOutNever(out, l) == FALSE

\* out.some((x) => x.to === l.to && x.type === l.type)
hasOut(out, l) == \E i \in 1..Len(out) : out[i].to = l.to /\ out[i].type = l.type

\* a duplicate check on incoming that never finds one
hasIncNever(inc, l) == FALSE

\* inc.some((x) => x.from === l.from && x.type === l.type)
\* a test of incoming that takes links of another type for the same link
hasIncAnyType(inc, l) == \E i \in 1..Len(inc) : inc[i].from = l.from

hasInc(inc, l) == \E i \in 1..Len(inc) : inc[i].from = l.from /\ inc[i].type = l.type

\* an applyEvent that makes the issue an event names when the mapping lacks it
upsertIssue(gs, e) ==
  [gs EXCEPT !.issues = Append(@, NewIssue(e.id, "", "feature", 2, "open", 0))]

\* if (cur) ...: nothing is set when issues.get(e.id) finds no issue
absentIssue(gs, e) == gs

applyEvent(gs, e) ==
  CASE e._type = "IssueCreated" ->
         [gs EXCEPT !.issues = SetIssue(gs.issues, e.issue.id, e.issue)]
    [] e._type = "IssuePatched" ->
         IF HasIssue(gs.issues, e.id)
         THEN [gs EXCEPT !.issues =
                 SetIssue(gs.issues, e.id,
                          Spread(Spread(GetIssue(gs.issues, e.id), e.patch),
                                 [updatedAt |-> e.updatedAt]))]
         ELSE absentIssue(gs, e)
    [] e._type = "IssueStatusSet" ->
         IF HasIssue(gs.issues, e.id)
         THEN [gs EXCEPT !.issues =
                 SetIssue(gs.issues, e.id, SetStatusOf(GetIssue(gs.issues, e.id), e))]
         ELSE absentIssue(gs, e)
    [] e._type = "LinkAdded" ->
         LET l   == e.link
             out == MapGet(gs.outgoing, l.from, <<>>)
             inc == MapGet(gs.incoming, l.to, <<>>)
             newOut == IF hasOut(out, l) THEN gs.outgoing
                       ELSE MapSet(gs.outgoing, l.from, Append(out, l))
             newInc == IF hasInc(inc, l) THEN gs.incoming
                       ELSE MapSet(gs.incoming, l.to, Append(inc, l))
         IN  [gs EXCEPT !.outgoing = newOut, !.incoming = newInc]
    [] e._type = "LinkRemoved" ->
         LET keepOut(x) == ~(x.to = e.to /\ x.type = e.type)
             keepInc(x) == ~(x.from = e.from /\ x.type = e.type)
         IN  [gs EXCEPT
                !.outgoing = MapSet(gs.outgoing, e.from,
                               SelectSeq(MapGet(gs.outgoing, e.from, <<>>), keepOut)),
                !.incoming = MapSet(gs.incoming, e.to,
                               SelectSeq(MapGet(gs.incoming, e.to, <<>>), keepInc))]

\* for (const e of events) g = applyEvent(g, e), from position i on
RECURSIVE ReplayFrom(_, _, _)
ReplayFrom(gs, events, i) ==
  IF i > Len(events) THEN gs
  ELSE ReplayFrom(applyEvent(gs, events[i]), events, i + 1)

\* a replay loop that skips the first event
materializeSkipFirst(events) == ReplayFrom(EmptyState, events, 2)

materializeFromEvents(events) == ReplayFrom(EmptyState, events, 1)

\* for (const ev of delta) rebuilt = applyEvent(rebuilt, ev)
RECURSIVE applyDelta(_, _)
applyDelta(state, delta) ==
  IF delta = <<>> THEN state
  ELSE applyDelta(applyEvent(state, Head(delta)), Tail(delta))

----------------------------------------------------------------------------
(* Query: ready() *)

NoOpts == EmptyMap

Includes(list, x) == \E i \in 1..Len(list) : list[i] = x

\* a.priority - b.priority || a.createdAt.localeCompare(b.createdAt), negative
SortsBefore(x, y) ==
  \/ x.priority < y.priority
  \/ x.priority = y.priority /\ x.createdAt < y.createdAt

RECURSIVE InsertSorted(_, _)
InsertSorted(sorted, x) ==
  IF sorted = <<>> THEN <<x>>
  ELSE IF SortsBefore(x, Head(sorted)) THEN <<x>> \o sorted
  ELSE <<Head(sorted)>> \o InsertSorted(Tail(sorted), x)

\* Array.prototype.sort is stable
RECURSIVE SortIssues(_)
SortIssues(s) ==
  IF s = <<>> THEN <<>>
  ELSE InsertSorted(SortIssues(SubSeq(s, 1, Len(s) - 1)), s[Len(s)])

\* blockers.some((l) => { up = g.issues.get(l.from); up && up is not done/canceled })
hasOpenBlocker(gs, issue) ==
  LET inc == MapGet(gs.incoming, issue.id, <<>>)
  IN  \E i \in 1..Len(inc) :
        /\ inc[i].type = "blocks"
        /\ HasIssue(gs.issues, inc[i].from)
        /\ GetIssue(gs.issues, inc[i].from).status \notin {"done", "canceled"}

readyKeeps(gs, issue, opts) ==
  /\ issue.status \in {"open", "doing"}
  /\ "kinds" \in DOMAIN opts => Includes(opts.kinds, issue.kind)
  /\ "priorities" \in DOMAIN opts => Includes(opts.priorities, issue.priority)
  /\ ("label" \in DOMAIN opts /\ opts.label # "") => Includes(issue.labels, opts.label)
  /\ ~hasOpenBlocker(gs, issue)

ready(gs, opts) ==
  LET keep(issue) == readyKeeps(gs, issue, opts)
  IN  SortIssues(SelectSeq(gs.issues, keep))

----------------------------------------------------------------------------
(* Indexes: buildIndexes() and the indexed ready() *)

\* Set.add on a Set kept in insertion order
AddId(ids, id) == IF Includes(ids, id) THEN ids ELSE Append(ids, id)

RECURSIVE AddIds(_, _)
AddIds(ids, more) ==
  IF more = <<>> THEN ids ELSE AddIds(AddId(ids, Head(more)), Tail(more))

\* the ids of a list of issues, in its order
IdsOf(list) == [i \in 1..Len(list) |-> list[i].id]

\* a readiness check that ignores the blockers
isActive(gs, issue) == issue.status \in {"open", "doing"}

IsReady(gs, issue) == issue.status \in {"open", "doing"} /\ ~hasOpenBlocker(gs, issue)

\* byPriority and byLabel as functions of the key; a key with no issue is an
\* absent key, read as the empty Set
buildIndexes(gs) ==
  [issues |-> gs.issues,
   outgoing |-> gs.outgoing,
   incoming |-> gs.incoming,
   byStatus |-> [st \in {gs.issues[i].status : i \in 1..Len(gs.issues)} |->
                   LET has(issue) == issue.status = st
                   IN  IdsOf(SelectSeq(gs.issues, has))],
   byPriority |-> [p \in {gs.issues[i].priority : i \in 1..Len(gs.issues)} |->
                     LET has(issue) == issue.priority = p
                     IN  IdsOf(SelectSeq(gs.issues, has))],
   byLabel |-> [l \in UNION {{gs.issues[i].labels[k] : k \in 1..Len(gs.issues[i].labels)} :
                               i \in 1..Len(gs.issues)} |->
                  LET has(issue) == Includes(issue.labels, l)
                  IN  IdsOf(SelectSeq(gs.issues, has))],
   readyIssues |-> LET has(issue) == IsReady(gs, issue)
                   IN  IdsOf(SelectSeq(gs.issues, has))]

\* a Map of Sets after set.add(id) on the Set at key, created when absent
AddToKey(index, key, id) == MapSet(index, key, AddId(MapGet(index, key, <<>>), id))

RECURSIVE AddToLabels(_, _, _)
\* for (const label of issue.labels) ... labelSet.add(issue.id)
AddToLabels(byLabel, labels, id) ==
  IF labels = <<>> THEN byLabel
  ELSE AddToLabels(AddToKey(byLabel, Head(labels), id), Tail(labels), id)

\* an incremental update that takes the new issue as ready whatever blocks it
indexIssueUnblocked(indexed, issue) ==
  [indexed EXCEPT
     !.byStatus = AddToKey(indexed.byStatus, issue.status, issue.id),
     !.byPriority = AddToKey(indexed.byPriority, issue.priority, issue.id),
     !.byLabel = AddToLabels(indexed.byLabel, issue.labels, issue.id),
     !.readyIssues = IF issue.status \in {"open", "doing"}
                     THEN AddId(indexed.readyIssues, issue.id)
                     ELSE indexed.readyIssues]

\* { ...indexed, indexes }: issues, outgoing and incoming are those of indexed
indexIssueCreated(indexed, issue) ==
  [indexed EXCEPT
     !.byStatus = AddToKey(indexed.byStatus, issue.status, issue.id),
     !.byPriority = AddToKey(indexed.byPriority, issue.priority, issue.id),
     !.byLabel = AddToLabels(indexed.byLabel, issue.labels, issue.id),
     !.readyIssues = IF issue.status \in {"open", "doing"} /\ ~hasOpenBlocker(indexed, issue)
                     THEN AddId(indexed.readyIssues, issue.id)
                     ELSE indexed.readyIssues]

\* the ids of list that are in candidates, in list order
Among(list, candidates) ==
  LET in(id) == Includes(candidates, id) IN SelectSeq(list, in)

RECURSIVE priorityFiltered(_, _, _)
\* for (const priority of opts.priorities) ... priorityFiltered.add(id)
priorityFiltered(ix, candidates, priorities) ==
  IF priorities = <<>> THEN <<>>
  ELSE AddIds(priorityFiltered(ix, candidates, SubSeq(priorities, 1, Len(priorities) - 1)),
              Among(MapGet(ix.byPriority, priorities[Len(priorities)], <<>>), candidates))

\* opts.priorities && opts.priorities.length > 0
filtersPriority(opts) == "priorities" \in DOMAIN opts /\ Len(opts.priorities) > 0

readyIndexed(ix, opts) ==
  LET byPri == IF filtersPriority(opts)
               THEN priorityFiltered(ix, ix.readyIssues, opts.priorities)
               ELSE ix.readyIssues
      byLab == IF "label" \in DOMAIN opts /\ opts.label # ""
               THEN Among(MapGet(ix.byLabel, opts.label, <<>>), byPri)
               ELSE byPri
      found == [i \in 1..Len(byLab) |-> GetIssue(ix.issues, byLab[i])]
      keep(issue) == "kinds" \in DOMAIN opts => Includes(opts.kinds, issue.kind)
  IN  SortIssues(SelectSeq(found, keep))

----------------------------------------------------------------------------
(* Store: files and their formats *)

STATE_VERSION == 1

NoFile == [exists |-> FALSE]

IssueEventTypes == {"IssueCreated", "IssuePatched", "IssueStatusSet"}

\* e._type.startsWith("Issue") ? issuesPath : linksPath
pathOf(e) == IF e._type \in IssueEventTypes THEN "issues" ELSE "links"

\* JSON.stringify(e) + "\n"
toLine(e) == [json |-> e, newline |-> TRUE]

\* JSON.parse(line)
parseLine(line) == line.json

\* a line whose text is not JSON, such as the torn line of a writer that died
BadLine == [text |-> "torn", newline |-> TRUE]

\* JSON.parse(line) does not throw
parses(line) == "json" \in DOMAIN line

\* the lines of file after the first offset ones
\* a read that does not seek
linesFromStart(file, offset) == file

\* file.seek(offset, Deno.SeekMode.Start), then read to the end
linesFrom(file, offset) == SubSeq(file, offset + 1, Len(file))

\* the number of the first line that does not parse, 0 if all do
firstBad(lines) ==
  IF \A i \in 1..Len(lines) : parses(lines[i]) THEN 0
  ELSE CHOOSE i \in 1..Len(lines) :
         ~parses(lines[i]) /\ \A j \in 1..(i - 1) : parses(lines[j])

Parsed(events) == [ok |-> TRUE, value |-> events, error |-> "none", line |-> 0]

ParseError(line) == [ok |-> FALSE, value |-> <<>>, error |-> "ParseError", line |-> line]

\* a parse loop that drops the lines that do not parse
parseLinesSkipping(lines) ==
  LET RECURSIVE kept(_)
      kept(i) == IF i > Len(lines) THEN <<>>
                 ELSE IF parses(lines[i]) THEN <<parseLine(lines[i])>> \o kept(i + 1)
                 ELSE kept(i + 1)
  IN Parsed(kept(1))

\* the parse loop of readAll and readTail: the first bad line ends the call
parseLines(lines) ==
  IF firstBad(lines) # 0 THEN ParseError(firstBad(lines))
  ELSE Parsed([i \in 1..Len(lines) |-> parseLine(lines[i])])

readAll(file) == parseLines(file)

\* a tail read that starts one line late
readTailLate(file, offset) == parseLines(linesFrom(file, offset + 1))

\* seek to offset, read to the end of the file, parse each line
readTail(file, offset) == parseLines(linesFrom(file, offset))

safeStat(file) == Len(file)

\* a scan that stops after the issue file
scanIssuesOnly(iFile, lFile) == readAll(iFile)

scan(iFile, lFile) ==
  IF ~readAll(iFile).ok THEN readAll(iFile)
  ELSE IF ~readAll(lFile).ok THEN readAll(lFile)
  ELSE Parsed(readAll(iFile).value \o readAll(lFile).value)

Min(x, y) == IF x <= y THEN x ELSE y

Max(x, y) == IF x >= y THEN x ELSE y

DefaultMeta ==
  [version |-> STATE_VERSION, issuesOffset |-> 0, linksOffset |-> 0, heads |-> EmptyMap]

\* a version of 0 stands for a meta file without a version
readMeta(file) ==
  IF file = NoFile THEN DefaultMeta
  ELSE IF file.version = 0
       THEN [version |-> 1, issuesOffset |-> file.issuesOffset,
             linksOffset |-> file.linksOffset, heads |-> file.heads]
  ELSE IF file.version # STATE_VERSION THEN DefaultMeta
  ELSE file

Null == [null |-> TRUE]

\* Array.from(map.entries())
Entries(m) == {<<k, m[k]>> : k \in DOMAIN m}

\* new Map(entries)
FromEntries(pairs) ==
  [k \in {p[1] : p \in pairs} |-> (CHOOSE p \in pairs : p[1] = k)[2]]

\* cover is history: how many lines of issues.jsonl and of links.jsonl the
\* snapshot was built from
serializeState(state, cover) ==
  [version |-> STATE_VERSION,
   issues |-> [i \in 1..Len(state.issues) |-> <<state.issues[i].id, state.issues[i]>>],
   outgoing |-> Entries(state.outgoing),
   incoming |-> Entries(state.incoming),
   cover |-> cover]

\* a state.json whose text is not JSON
Unparsable == [exists |-> TRUE]

\* how readState finds state.json
snapshotCondition(file) ==
  IF file = NoFile THEN "missing"
  ELSE IF file = Unparsable THEN "unparsable"
  ELSE IF file.version # STATE_VERSION THEN "version"
  ELSE "hit"

\* a readState that does not look at the version tag
readStateAnyVersion(file) ==
  IF file = NoFile \/ file = Unparsable THEN Null
  ELSE [issues |-> [i \in 1..Len(file.issues) |-> file.issues[i][2]],
        outgoing |-> FromEntries(file.outgoing),
        incoming |-> FromEntries(file.incoming)]

readState(file) ==
  IF file = NoFile THEN Null
  ELSE IF file = Unparsable THEN Null
  ELSE IF file.version # STATE_VERSION THEN Null
  ELSE [issues |-> [i \in 1..Len(file.issues) |-> file.issues[i][2]],
        outgoing |-> FromEntries(file.outgoing),
        incoming |-> FromEntries(file.incoming)]

coverOf(file) == IF file = NoFile \/ file = Unparsable THEN <<0, 0>> ELSE file.cover

indexHeads(gs, issuesOffset, linksOffset) ==
  [id \in IssueIds(gs) |-> [issuesOffset |-> issuesOffset, linksOffset |-> linksOffset]]

metaData(state, issuesOffset, linksOffset) ==
  [version |-> STATE_VERSION, issuesOffset |-> issuesOffset,
   linksOffset |-> linksOffset,
   heads |-> indexHeads(state, issuesOffset, linksOffset)]

----------------------------------------------------------------------------
(* Store: callers *)

Callers == 1..2

Free == 0

External == 9

NoEvent == [_type |-> "none"]

NoResult == [kind |-> "none", value |-> EmptyState]

Ok(state) == [kind |-> "ok", value |-> state]

Err(kind) == [kind |-> kind, value |-> EmptyState]

\* what materialize() returned, with how its lock attempt ended
Returned(result, lock) == [kind |-> result.kind, value |-> result.value, lock |-> lock]

\* leaked is the lockFh of an earlier call that returned without closing it:
\* "waiting" while its lock(false) is outstanding, "held" once it was granted
NoLocals ==
  [lock |-> "none", leaked |-> "none", meta |-> DefaultMeta, snapshot |-> "none",
   cached |-> Null, cachedCover |-> <<0, 0>>,
   iSize |-> 0, lSize |-> 0, out |-> EmptyState, cover |-> <<0, 0>>,
   result |-> NoResult]

WriteErrors == {"DiskFull", "PermissionDenied", "Corruption"}

\* no withRetry call yet; results and onRetry are history: what the
\* invocations of the operation returned, and the calls of opts.onRetry
NoRetry == [pc |-> "idle", attempt |-> 0, maxAttempts |-> 0, results |-> <<>>,
            onRetry |-> <<>>, result |-> "none"]

\* no CircuitBreaker has been constructed
NoBreaker == [state |-> "none", failures |-> 0, successes |-> 0, lastFailureTime |-> 0,
              options |-> [failureThreshold |-> 0, resetTimeoutMs |-> 0,
                           successThreshold |-> 0]]

\* seq numbers the execute() calls in the order they began
NoCall == [pc |-> "idle", seq |-> 0, result |-> "none", invoked |-> FALSE]

\* streak: the operations that failed since one last succeeded (or since reset());
\* failedAt: Date.now() when an operation last failed
NoBreakerTrack == [executes |-> 0, streak |-> 0, failedAt |-> 0, rejected |-> 0]

BreakerAbsent ==
  /\ breaker = NoBreaker
  /\ bcall = [c \in Callers |-> NoCall]
  /\ now = 0
  /\ btrack = NoBreakerTrack

\* materializeFromEvents has not been called: the state its last call left, its
\* for loop's position and accumulator, the states its calls returned
NoReplay == [pc |-> "idle", last |-> EmptyState, i |-> 0, g |-> EmptyState, results |-> <<>>]

\* makeTrinkets was given no cache
Absent == [absent |-> TRUE]

NoTrinketsCall ==
  [op |-> "none", pc |-> "idle", event |-> NoEvent, value |-> Null, must |-> {},
   result |-> [kind |-> "none", value |-> Null]]

NoTrinketsTrack ==
  [made |-> FALSE, completed |-> {}, reads |-> 0, faults |-> 0, overlap |-> FALSE]

\* no makeTrinkets() yet, the store empty
TrinketsAbsent ==
  /\ eventLog = <<>>
  /\ cache = Absent
  /\ inMemoryGraph = Null
  /\ inflightMaterialize = Null
  /\ tcall = [t \in Callers |-> NoTrinketsCall]
  /\ ttrack = NoTrinketsTrack

StoreFresh ==
  /\ issuesFile = <<>> /\ linksFile = <<>>
  /\ stateFile = NoFile /\ metaFile = NoFile
  /\ stateTmp = NoFile /\ metaTmp = NoFile
  /\ lockOwner = [f \in {"issues", "links", "lock"} |-> Free]
  /\ apc = [a \in Callers |-> "idle"]
  /\ aev = [a \in Callers |-> NoEvent]
  /\ ares = [a \in Callers |-> "none"]
  /\ mpc = [m \in Callers |-> "idle"]
  /\ mloc = [m \in Callers |-> NoLocals]
  /\ mres = [m \in Callers |-> Returned(NoResult, "none")]
  /\ acked = <<>>
  /\ track = [faulted |-> FALSE, overlap |-> FALSE, matOverlap |-> FALSE, appendFailed |-> FALSE]
  /\ retry = NoRetry
  /\ BreakerAbsent
  /\ TrinketsAbsent
  /\ replay = NoReplay

Quota(appenders, materializers, appends, mats, faults, holders, concurrent) ==
  [appenders |-> appenders, materializers |-> materializers,
   appends |-> appends, mats |-> mats, faults |-> faults, holders |-> holders,
   concurrent |-> concurrent, validateEvents |-> FALSE]

\* the same run on a store opened with validateEvents: true
Validating(q) == [q EXCEPT !.validateEvents = TRUE]

\* no store call can start
StoreIdle == StoreFresh /\ quota = Quota(0, 0, 0, 0, 0, 0, FALSE)

StoreInit(q) == StoreFresh /\ quota = q /\ g = EmptyState /\ hist = <<>>

AnyAppendActive == \E a \in Callers : apc[a] # "idle"

AnyMatActive == \E m \in Callers : mpc[m] # "idle"

Quiet == ~AnyAppendActive /\ ~AnyMatActive

Fault == quota.faults > 0

Spend(q, field) == [q EXCEPT ![field] = @ - 1]

Faulted == [track EXCEPT !.faulted = TRUE]

----------------------------------------------------------------------------
(* Store: append(e), one action per awaited step *)

IssueKinds == {"feature", "bug", "chore", "note", "epic"}

IssueStatuses == {"open", "doing", "done", "canceled"}

DepTypes == {"blocks", "parent-child", "related", "discovered-from"}

\* a validator that lets every event pass
validAny(e) == TRUE

\* parseEvent(e) does not throw: e matches one variant of EventSchema
validEvent(e) ==
  CASE e._type = "IssueCreated" ->
         e.issue.kind \in IssueKinds /\ e.issue.status \in IssueStatuses
    [] e._type = "IssuePatched" ->
         "kind" \in DOMAIN e.patch => e.patch.kind \in IssueKinds
    [] e._type = "IssueStatusSet" -> e.status \in IssueStatuses
    [] e._type = "LinkAdded" -> e.link.type \in DepTypes
    [] e._type = "LinkRemoved" -> e.type \in DepTypes
    [] OTHER -> FALSE

Rejected(e) == quota.validateEvents /\ ~validEvent(e)

\* the classes of the errors Deno.open() throws
OpenErrors == {"PermissionDenied", "NotFound", "IsADirectory"}

\* the catch around Deno.open(): error instanceof Deno.errors.PermissionDenied
openError(error) == IF error = "PermissionDenied" THEN "PermissionDenied" ELSE "Corruption"

\* parseEvent(e) when validateEvents is set; Deno.open(path, append)
AppendOpen(a, e) ==
  /\ a <= quota.appenders /\ quota.appends > 0
  /\ aev' = [aev EXCEPT ![a] = e]
  /\ \/ /\ Rejected(e)
        /\ ares' = [ares EXCEPT ![a] = "ParseError"]
        /\ quota' = Spend(quota, "appends")
        /\ track' = [track EXCEPT !.appendFailed = TRUE]
        /\ apc' = [apc EXCEPT ![a] = "idle"]
     \/ /\ ~Rejected(e)
        /\ apc' = [apc EXCEPT ![a] = "lockwait"]
        /\ ares' = [ares EXCEPT ![a] = "pending"]
        /\ quota' = Spend(quota, "appends")
        /\ track' = [track EXCEPT !.overlap = @ \/ ~Quiet]
     \/ /\ ~Rejected(e)
        /\ Fault
        /\ \E error \in OpenErrors : ares' = [ares EXCEPT ![a] = openError(error)]
        /\ quota' = Spend(Spend(quota, "appends"), "faults")
        /\ track' = [Faulted EXCEPT !.appendFailed = TRUE]
        /\ apc' = [apc EXCEPT ![a] = "idle"]
  /\ UNCHANGED <<libVars, pureVars, fileVars, snapVars, lockOwner, acked, matVars>>

\* store.append(e) called by a caller that is in no other call
AppendBegin(a, e) ==
  /\ apc[a] = "idle"
  /\ quota.concurrent \/ Quiet
  /\ AppendOpen(a, e)

\* fh.lock(true) wins the race
AppendLockGranted(a) ==
  /\ apc[a] = "lockwait"
  /\ lockOwner[pathOf(aev[a])] = Free
  /\ lockOwner' = [lockOwner EXCEPT ![pathOf(aev[a])] = a]
  /\ apc' = [apc EXCEPT ![a] = "locked"]
  /\ UNCHANGED <<libVars, pureVars, fileVars, snapVars, aev, ares, acked, matVars, quota, track>>

\* the runtime completes fh.unlock() at once, or only after the fh.lock(true)
\* still outstanding on the same handle
unlockAfterTimeout == {"finally", "unlockQueued"}

\* an error message is the list of its parts, error.message.includes(part)
\* is Includes(message, part)

\* new Error("Lock timeout"), the rejection of timeoutPromise
LockTimeoutMessage == <<"Lock", "timeout">>

\* new Error(`Lock acquisition failed: ${reason}`)
lockFailed(reason) == <<"Lock", "acquisition failed:">> \o reason

\* the messages of the errors fh.write() and fh.sync() reject with: those of
\* the operating system, and those of a full disk as the catch looks for them
WriteMessages ==
  { <<"No space left", "on device (os error 28)">>,
    <<"ENOSPC">>,
    <<"disk full">>,
    <<"Input/output error (os error 5)">>,
    <<"Bad resource ID">>,
    <<"The process cannot access the file because another process has",
      "locked", "a portion of the file. (os error 33)">> }

\* a catch that takes every error for a lock timeout
appendErrorAlwaysLock(message) == "LockTimeout"

\* the catch of append(): the kind of the error returned for a thrown message
appendError(message) ==
  IF Includes(message, "Lock") THEN "LockTimeout"
  ELSE IF Includes(message, "No space left") \/ Includes(message, "ENOSPC")
          \/ Includes(message, "disk full")
       THEN "DiskFull"
       ELSE "Corruption"

\* the timer wins the race: "Lock acquisition failed: Lock timeout"
AppendLockTimeout(a) ==
  /\ apc[a] = "lockwait"
  /\ ares' = [ares EXCEPT ![a] = appendError(lockFailed(LockTimeoutMessage))]
  /\ \E next \in unlockAfterTimeout : apc' = [apc EXCEPT ![a] = next]
  /\ UNCHANGED <<libVars, pureVars, fileVars, snapVars, lockOwner, aev, acked, matVars, quota, track>>

\* the messages fh.lock(true) rejects with when the file cannot be locked at all
LockMessages ==
  { <<"Operation not supported (os error 95)">>, <<"No locks available (os error 37)">> }

\* fh.lock(true) rejects before the timer fires: "Lock acquisition failed: ..."
AppendLockRejected(a) ==
  /\ apc[a] = "lockwait"
  /\ Fault
  /\ \E reason \in LockMessages :
       ares' = [ares EXCEPT ![a] = appendError(lockFailed(reason))]
  /\ apc' = [apc EXCEPT ![a] = "finally"]
  /\ quota' = Spend(quota, "faults")
  /\ track' = Faulted
  /\ UNCHANGED <<libVars, pureVars, fileVars, snapVars, lockOwner, aev, acked, matVars>>

\* the outstanding fh.lock(true) is granted and the queued fh.unlock() undoes it
AppendUnlockQueued(a) ==
  /\ apc[a] = "unlockQueued"
  /\ lockOwner[pathOf(aev[a])] = Free
  /\ apc' = [apc EXCEPT ![a] = "finally"]
  /\ UNCHANGED <<libVars, pureVars, fileVars, snapVars, lockOwner, aev, ares, acked, matVars, quota, track>>

\* a write at the start of the file instead of its end
writeTruncating(file, e) == <<toLine(e)>>

\* O_APPEND write of one whole line
writeLine(file, e) == Append(file, toLine(e))

\* a write that lands in both log files
AppendToBoth(path, e) ==
  /\ issuesFile' = writeLine(issuesFile, e)
  /\ linksFile' = writeLine(linksFile, e)

AppendTo(path, e) ==
  /\ issuesFile' = IF path = "issues" THEN writeLine(issuesFile, e) ELSE issuesFile
  /\ linksFile' = IF path = "links" THEN writeLine(linksFile, e) ELSE linksFile

\* fh.write(data); fh.sync()
AppendWrite(a) ==
  /\ apc[a] = "locked"
  /\ apc' = [apc EXCEPT ![a] = "finally"]
  /\ \/ /\ AppendTo(pathOf(aev[a]), aev[a])
        /\ ares' = [ares EXCEPT ![a] = "ok"]
        /\ UNCHANGED <<quota, track>>
     \/ /\ Fault
        /\ \/ UNCHANGED fileVars
           \/ AppendTo(pathOf(aev[a]), aev[a])
        /\ \E message \in WriteMessages : ares' = [ares EXCEPT ![a] = appendError(message)]
        /\ quota' = Spend(quota, "faults")
        /\ track' = Faulted
  /\ UNCHANGED <<libVars, pureVars, snapVars, lockOwner, aev, acked, matVars>>

\* finally: fh.unlock(); fh.close(); the result reaches the caller
AppendFinally(a) ==
  /\ apc[a] = "finally"
  /\ lockOwner' = [f \in DOMAIN lockOwner |-> IF lockOwner[f] = a THEN Free ELSE lockOwner[f]]
  /\ apc' = [apc EXCEPT ![a] = "idle"]
  /\ acked' = IF ares[a] = "ok" THEN Append(acked, aev[a]) ELSE acked
  /\ track' = [track EXCEPT !.appendFailed = @ \/ ares[a] # "ok"]
  /\ UNCHANGED <<libVars, pureVars, fileVars, snapVars, aev, ares, matVars, quota>>

\* another program on the same filesystem takes and drops an advisory lock
HolderLock(f) ==
  /\ quota.holders > 0
  /\ lockOwner[f] = Free
  /\ lockOwner' = [lockOwner EXCEPT ![f] = External]
  /\ quota' = Spend(quota, "holders")
  /\ UNCHANGED <<libVars, pureVars, fileVars, snapVars, apc, aev, ares, acked, matVars, track>>

HolderUnlock(f) ==
  /\ lockOwner[f] = External
  /\ lockOwner' = [lockOwner EXCEPT ![f] = Free]
  /\ UNCHANGED <<libVars, pureVars, fileVars, snapVars, apc, aev, ares, acked, matVars, quota, track>>

----------------------------------------------------------------------------
(* Store: materialize(), one action per awaited step *)

SetLocal(m, field, value) == [mloc EXCEPT ![m][field] = value]

\* a catch that lets every failure of the lock attempt pass
mutedLockError(reason) == "continue"

\* the catch of the lock attempt: a timeout is returned, anything else is
\* logged and the call continues without the lock
afterLockError(reason) == IF reason = "Lock timeout" THEN "return" ELSE "continue"

\* the locals of the next call: lockFh is neither unlocked nor closed, and
\* its lock(false) stays outstanding when the call returns LockTimeout
Abandoned(loc, outcome) ==
  [NoLocals EXCEPT !.leaked = IF outcome = "timedOut" /\ loc.leaked = "none"
                              THEN "waiting" ELSE loc.leaked]

LockError(m, reason, outcome) ==
  IF afterLockError(reason) = "return"
  THEN /\ mres' = [mres EXCEPT ![m] = Returned(Err("LockTimeout"), outcome)]
       /\ mpc' = [mpc EXCEPT ![m] = "idle"]
       /\ mloc' = [mloc EXCEPT ![m] = Abandoned(mloc[m], outcome)]
  ELSE /\ mpc' = [mpc EXCEPT ![m] = "readMeta"]
       /\ mloc' = SetLocal(m, "lock", outcome)
       /\ UNCHANGED mres

\* Deno.open(lockPath)
MatBegin(m) ==
  /\ mpc[m] = "idle" /\ m <= quota.materializers /\ quota.mats > 0
  /\ quota.concurrent \/ Quiet
  /\ \/ /\ mpc' = [mpc EXCEPT ![m] = "lockwait"]
        /\ quota' = Spend(quota, "mats")
        /\ track' = [track EXCEPT !.overlap = @ \/ ~Quiet,
                                  !.matOverlap = @ \/ AnyMatActive]
        /\ UNCHANGED <<mloc, mres>>
     \/ /\ Fault
        /\ LockError(m, "open failed", "openFailed")
        /\ quota' = Spend(Spend(quota, "mats"), "faults")
        /\ track' = [track EXCEPT !.overlap = @ \/ ~Quiet,
                                  !.matOverlap = @ \/ AnyMatActive]
  /\ UNCHANGED <<libVars, pureVars, fileVars, snapVars, appendVars>>

\* lockFh.lock(false) wins the race
MatLockGranted(m) ==
  /\ mpc[m] = "lockwait"
  /\ lockOwner["lock"] = Free
  /\ mpc' = [mpc EXCEPT ![m] = "readMeta"]
  /\ mloc' = SetLocal(m, "lock", "held")
  /\ UNCHANGED <<libVars, pureVars, fileVars, snapVars, appendVars, mres, quota, track>>

\* the lock(false) left outstanding by a call that returned LockTimeout is granted
MatLockLeaked(m) ==
  /\ mloc[m].leaked = "waiting"
  /\ lockOwner["lock"] = Free
  /\ mloc' = SetLocal(m, "leaked", "held")
  /\ UNCHANGED <<libVars, pureVars, fileVars, snapVars, appendVars, mpc, mres, quota, track>>

\* the timer wins the race
MatLockTimeout(m) ==
  /\ mpc[m] = "lockwait"
  /\ LockError(m, "Lock timeout", "timedOut")
  /\ UNCHANGED <<libVars, pureVars, fileVars, snapVars, appendVars, quota, track>>

MatReadMeta(m) ==
  /\ mpc[m] = "readMeta"
  /\ mloc' = SetLocal(m, "meta", readMeta(metaFile))
  /\ mpc' = [mpc EXCEPT ![m] = "readState"]
  /\ UNCHANGED <<libVars, pureVars, fileVars, snapVars, appendVars, mres, quota, track>>

MatReadState(m) ==
  /\ mpc[m] = "readState"
  /\ mloc' = [mloc EXCEPT ![m].cached = readState(stateFile),
                          ![m].snapshot = snapshotCondition(stateFile),
                          ![m].cachedCover = coverOf(stateFile)]
  /\ mpc' = [mpc EXCEPT ![m] = "stat"]
  /\ UNCHANGED <<libVars, pureVars, fileVars, snapVars, appendVars, mres, quota, track>>

\* Promise.all of the two safeStat calls
MatStat(m) ==
  /\ mpc[m] = "stat"
  /\ mloc' = [mloc EXCEPT ![m].iSize = safeStat(issuesFile),
                          ![m].lSize = safeStat(linksFile)]
  /\ mpc' = [mpc EXCEPT ![m] = "readTail"]
  /\ UNCHANGED <<libVars, pureVars, fileVars, snapVars, appendVars, mres, quota, track>>

\* lines of a file that a snapshot built from the cached one and the tail
\* read from offset reflects without a gap
coverAfter(cachedCover, offset, len) == IF offset <= cachedCover THEN len ELSE cachedCover

\* Promise.all of the two readTail calls, then the three ways on
MatReadTail(m) ==
  /\ mpc[m] = "readTail"
  /\ LET loc == mloc[m]
         iFrom == Min(loc.meta.issuesOffset, loc.iSize)
         lFrom == Min(loc.meta.linksOffset, loc.lSize)
         newI == readTail(issuesFile, iFrom)
         newL == readTail(linksFile, lFrom)
         delta == newI.value \o newL.value
     IN IF ~newI.ok \/ ~newL.ok
        THEN /\ mpc' = [mpc EXCEPT ![m] = "finally"]
             /\ mloc' = SetLocal(m, "result", Err("ParseError"))
        ELSE IF loc.cached = Null
        THEN /\ mpc' = [mpc EXCEPT ![m] = "scan"]
             /\ UNCHANGED mloc
        ELSE IF delta = <<>>
        THEN /\ mpc' = [mpc EXCEPT ![m] = "finally"]
             /\ mloc' = SetLocal(m, "result", Ok(loc.cached))
        ELSE /\ mpc' = [mpc EXCEPT ![m] = "writeStateTmp"]
             /\ mloc' = [mloc EXCEPT
                  ![m].out = applyDelta(loc.cached, delta),
                  ![m].cover = <<coverAfter(loc.cachedCover[1], iFrom, Len(issuesFile)),
                                 coverAfter(loc.cachedCover[2], lFrom, Len(linksFile))>>]
  /\ UNCHANGED <<libVars, pureVars, fileVars, snapVars, appendVars, mres, quota, track>>

\* no cached state: scan() and materializeFromEvents
MatScan(m) ==
  /\ mpc[m] = "scan"
  /\ LET scanResult == scan(issuesFile, linksFile)
     IN IF ~scanResult.ok
        THEN /\ mpc' = [mpc EXCEPT ![m] = "finally"]
             /\ mloc' = SetLocal(m, "result", Err(scanResult.error))
        ELSE /\ mpc' = [mpc EXCEPT ![m] = "writeStateTmp"]
             /\ mloc' = [mloc EXCEPT
                  ![m].out = materializeFromEvents(scanResult.value),
                  ![m].cover = <<Len(issuesFile), Len(linksFile)>>]
  /\ UNCHANGED <<libVars, pureVars, fileVars, snapVars, appendVars, mres, quota, track>>

\* an awaited file operation of atomicWriteState throws
WriteFails(m) ==
  /\ Fault
  /\ \E kind \in WriteErrors : mloc' = SetLocal(m, "result", Err(kind))
  /\ mpc' = [mpc EXCEPT ![m] = "removeStateTmp"]
  /\ quota' = Spend(quota, "faults")
  /\ track' = Faulted
  /\ UNCHANGED snapVars

\* Deno.rename of a temp file that is no longer there
RenameMissing(m) ==
  /\ mloc' = SetLocal(m, "result", Err("Corruption"))
  /\ mpc' = [mpc EXCEPT ![m] = "removeStateTmp"]
  /\ UNCHANGED <<snapVars, quota, track>>

MatWriteStateTmp(m) ==
  /\ mpc[m] = "writeStateTmp"
  /\ \/ /\ stateTmp' = serializeState(mloc[m].out, mloc[m].cover)
        /\ mpc' = [mpc EXCEPT ![m] = "writeMetaTmp"]
        /\ UNCHANGED <<stateFile, metaFile, metaTmp, mloc, quota, track>>
     \/ WriteFails(m)
  /\ UNCHANGED <<libVars, pureVars, fileVars, appendVars, mres>>

MatWriteMetaTmp(m) ==
  /\ mpc[m] = "writeMetaTmp"
  /\ \/ /\ metaTmp' = metaData(mloc[m].out, mloc[m].iSize, mloc[m].lSize)
        /\ mpc' = [mpc EXCEPT ![m] = "renameState"]
        /\ UNCHANGED <<stateFile, metaFile, stateTmp, mloc, quota, track>>
     \/ WriteFails(m)
  /\ UNCHANGED <<libVars, pureVars, fileVars, appendVars, mres>>

\* the state rename left out
MatRenameStateSkipped(m) ==
  /\ mpc[m] = "renameState"
  /\ mpc' = [mpc EXCEPT ![m] = "renameMeta"]
  /\ UNCHANGED <<libVars, pureVars, fileVars, snapVars, appendVars, mloc, mres, quota, track>>

MatRenameState(m) ==
  /\ mpc[m] = "renameState"
  /\ \/ /\ stateTmp # NoFile
        /\ stateFile' = stateTmp
        /\ stateTmp' = NoFile
        /\ mpc' = [mpc EXCEPT ![m] = "renameMeta"]
        /\ UNCHANGED <<metaFile, metaTmp, mloc, quota, track>>
     \/ /\ stateTmp = NoFile
        /\ RenameMissing(m)
     \/ WriteFails(m)
  /\ UNCHANGED <<libVars, pureVars, fileVars, appendVars, mres>>

MatRenameMeta(m) ==
  /\ mpc[m] = "renameMeta"
  /\ \/ /\ metaTmp # NoFile
        /\ metaFile' = metaTmp
        /\ metaTmp' = NoFile
        /\ mpc' = [mpc EXCEPT ![m] = "finally"]
        /\ mloc' = SetLocal(m, "result", Ok(mloc[m].out))
        /\ UNCHANGED <<stateFile, stateTmp, quota, track>>
     \/ /\ metaTmp = NoFile
        /\ RenameMissing(m)
     \/ WriteFails(m)
  /\ UNCHANGED <<libVars, pureVars, fileVars, appendVars, mres>>

\* catch: Deno.remove(stateTmp), errors ignored
MatRemoveStateTmp(m) ==
  /\ mpc[m] = "removeStateTmp"
  /\ stateTmp' = NoFile
  /\ mpc' = [mpc EXCEPT ![m] = "removeMetaTmp"]
  /\ UNCHANGED <<libVars, pureVars, fileVars, stateFile, metaFile, metaTmp, appendVars, mloc, mres, quota, track>>

\* catch: Deno.remove(metaTmp), errors ignored
MatRemoveMetaTmp(m) ==
  /\ mpc[m] = "removeMetaTmp"
  /\ metaTmp' = NoFile
  /\ mpc' = [mpc EXCEPT ![m] = "finally"]
  /\ UNCHANGED <<libVars, pureVars, fileVars, stateFile, metaFile, stateTmp, appendVars, mloc, mres, quota, track>>

\* finally: lockFh.unlock(); lockFh.close(); the result reaches the caller
MatFinally(m) ==
  /\ mpc[m] = "finally"
  /\ mres' = [mres EXCEPT ![m] = Returned(mloc[m].result, mloc[m].lock)]
  /\ mloc' = [mloc EXCEPT ![m] = Abandoned(mloc[m], "unlocked")]
  /\ mpc' = [mpc EXCEPT ![m] = "idle"]
  /\ UNCHANGED <<libVars, pureVars, fileVars, snapVars, appendVars, quota, track>>

----------------------------------------------------------------------------
(* Domain: createIssue and addLink over the store *)

\* toBase32(digest): the characters of the encoded digest, first one first
slice(base, len) == SubSeq(base, 1, Min(len, Len(base)))

RECURSIVE join(_)
join(chars) == IF chars = <<>> THEN "" ELSE Head(chars) \o join(Tail(chars))

\* `bd-${base.slice(0, len)}`
candidate(base, len) == "bd-" \o join(slice(base, len))

\* the shortest prefix of 4 to 8 characters that is not in existing; past 8
\* the tail of Date.now() in base 36 is added and nothing is looked up
newIssueId(base, existing, stamp) ==
  LET free == {len \in 4..8 : candidate(base, len) \notin existing}
  IN  IF free # {}
      THEN candidate(base, CHOOSE len \in free : \A k \in free : len <= k)
      ELSE candidate(base, 8) \o stamp

\* the keys of the snapshot's issues when state.json reads; else the ids of
\* the IssueCreated lines of issues.jsonl.  The two reads are one step.
getExistingIds(sFile, iFile) ==
  IF readState(sFile) # Null
  THEN Parsed({readState(sFile).issues[i].id : i \in 1..Len(readState(sFile).issues)})
  ELSE IF ~readAll(iFile).ok THEN readAll(iFile)
  ELSE Parsed({readAll(iFile).value[i].issue.id :
                 i \in {k \in 1..Len(iFile) : readAll(iFile).value[k]._type = "IssueCreated"}})

\* the call a caller is in before its store.append starts
Creating(existing) == [_type |-> "createIssue", existing |-> existing]

DomainCallable(a) ==
  /\ apc[a] = "idle" /\ a <= quota.appenders /\ quota.appends > 0
  /\ quota.concurrent \/ Quiet

\* createIssue up to the result of store.getExistingIds()
CreateIssueBegin(a) ==
  /\ DomainCallable(a)
  /\ LET ids == getExistingIds(stateFile, issuesFile)
     IN  IF ids.ok
         THEN /\ apc' = [apc EXCEPT ![a] = "creating"]
              /\ aev' = [aev EXCEPT ![a] = Creating(ids.value)]
              /\ ares' = [ares EXCEPT ![a] = "pending"]
              /\ UNCHANGED <<quota, track>>
         ELSE /\ aev' = [aev EXCEPT ![a] = Creating({})]
              /\ ares' = [ares EXCEPT ![a] = ids.error]
              /\ quota' = Spend(quota, "appends")
              /\ track' = [track EXCEPT !.appendFailed = TRUE]
              /\ UNCHANGED apc
  /\ UNCHANGED <<libVars, pureVars, fileVars, snapVars, lockOwner, acked, matVars>>

\* createIssue from newIssueId(seed, existing) to the start of store.append;
\* seed holds Math.random(), so its digest is any of the pool
CreateIssueAppend(a, base, stamp) ==
  /\ apc[a] = "creating"
  /\ AppendOpen(a, IssueCreated(NewIssue(newIssueId(base, aev[a].existing, stamp),
                                         "t", "feature", 2, "open", 1)))

\* a self-link test that lets every link pass
selfLinkNever(from, to) == FALSE

\* input.from === input.to
selfLink(from, to) == from = to

\* the arguments of an addLink call that returned without an append
LinkInput(from, to, type) == [_type |-> "addLink", from |-> from, to |-> to, type |-> type]

addLink(a, from, to, type) ==
  /\ DomainCallable(a)
  /\ IF selfLink(from, to)
     THEN /\ aev' = [aev EXCEPT ![a] = LinkInput(from, to, type)]
          /\ ares' = [ares EXCEPT ![a] = "Corruption"]
          /\ quota' = Spend(quota, "appends")
          /\ track' = [track EXCEPT !.appendFailed = TRUE]
          /\ UNCHANGED <<libVars, apc, pureVars, fileVars, snapVars, lockOwner, acked, matVars>>
     ELSE AppendOpen(a, LinkAdded(NewLink(from, to, type, 1)))

----------------------------------------------------------------------------
(* Domain: validateInvariants *)

\* a walk that follows links of every type
followsAny(l) == TRUE

\* l.type === "blocks"
followsBlocks(l) == l.type = "blocks"

NoMarks == [visiting |-> {}, visited |-> {}, found |-> FALSE]

RECURSIVE dfs(_, _, _)
RECURSIVE dfsEdges(_, _, _, _)

\* the for loop of dfs over g.outgoing.get(id) from its i-th link on; a
\* true from an inner call returns at once, with id left in visiting
dfsEdges(gs, id, i, marks) ==
  LET out == MapGet(gs.outgoing, id, <<>>)
  IN  IF i > Len(out)
      THEN [visiting |-> marks.visiting \ {id},
            visited |-> marks.visited \cup {id}, found |-> FALSE]
      ELSE IF followsBlocks(out[i])
           THEN LET inner == dfs(gs, out[i].to, marks)
                IN  IF inner.found THEN inner ELSE dfsEdges(gs, id, i + 1, inner)
           ELSE dfsEdges(gs, id, i + 1, marks)

dfs(gs, id, marks) ==
  IF id \in marks.visiting THEN [marks EXCEPT !.found = TRUE]
  ELSE IF id \in marks.visited THEN [marks EXCEPT !.found = FALSE]
  ELSE dfsEdges(gs, id, 1, [marks EXCEPT !.visiting = @ \cup {id}])

CycleError(id) == [kind |-> "cycle", id |-> id]

ParentError(id) == [kind |-> "parent", id |-> id]

RECURSIVE cycleErrors(_, _, _)
\* for (const id of g.issues.keys()): the first dfs that is true pushes one
\* error and breaks
cycleErrors(gs, i, marks) ==
  IF i > Len(gs.issues) THEN <<>>
  ELSE LET walk == dfs(gs, gs.issues[i].id, marks)
       IN  IF walk.found THEN <<CycleError(gs.issues[i].id)>>
           ELSE cycleErrors(gs, i + 1, walk)

\* a done issue with a parent-child link, whatever the child's status
hasChildren(gs, issue) ==
  /\ issue.status = "done"
  /\ \E k \in 1..Len(MapGet(gs.outgoing, issue.id, <<>>)) :
       gs.outgoing[issue.id][k].type = "parent-child"

\* a done issue with a parent-child link to an issue neither done nor canceled
hasOpenChildren(gs, issue) ==
  /\ issue.status = "done"
  /\ \E k \in 1..Len(MapGet(gs.outgoing, issue.id, <<>>)) :
       LET l == gs.outgoing[issue.id][k]
       IN  /\ l.type = "parent-child"
           /\ HasIssue(gs.issues, l.to)
           /\ GetIssue(gs.issues, l.to).status \notin {"done", "canceled"}

RECURSIVE parentErrors(_, _)
parentErrors(gs, i) ==
  IF i > Len(gs.issues) THEN <<>>
  ELSE (IF hasOpenChildren(gs, gs.issues[i]) THEN <<ParentError(gs.issues[i].id)>> ELSE <<>>)
       \o parentErrors(gs, i + 1)

validateInvariants(gs) == cycleErrors(gs, 1, NoMarks) \o parentErrors(gs, 1)

----------------------------------------------------------------------------
(* Integrity: verifyIntegrity() and repairEvents(); an event index counts   *)
(* from 1 here                                                              *)

\* typeof id === "string" && id.startsWith("bd-") && id.length > 3
validateIssueId(id) == Len(id) > 3 /\ SubSeq(id, 1, 3) = "bd-"

DuplicateIssueId(id, indexes) ==
  [type |-> "DuplicateIssueId", issueId |-> id, eventIndexes |-> indexes]

IndexedIssue(type, id, i) == [type |-> type, issueId |-> id, eventIndex |-> i]

OrphanedLink(i, link) ==
  [type |-> "OrphanedLink", linkIndex |-> i, from |-> link.from, to |-> link.to]

InvariantViolation(reason) == [type |-> "InvariantViolation", reason |-> reason]

IsCreated(e) == e._type = "IssueCreated"

RECURSIVE eventIssues(_, _)
\* first pass: the id format of IssueCreated, self-links
eventIssues(events, i) ==
  IF i > Len(events) THEN <<>>
  ELSE (IF IsCreated(events[i]) /\ ~validateIssueId(events[i].issue.id)
        THEN <<IndexedIssue("InvalidIssueId", events[i].issue.id, i)>> ELSE <<>>)
       \o (IF events[i]._type = "LinkAdded" /\ events[i].link.from = events[i].link.to
           THEN <<IndexedIssue("SelfLink", events[i].link.from, i)>> ELSE <<>>)
       \o eventIssues(events, i + 1)

\* issueCreationIndexes.get(id)
creationIndexes(events, id) ==
  LET RECURSIVE from(_)
      from(i) ==
        IF i > Len(events) THEN <<>>
        ELSE (IF IsCreated(events[i]) /\ events[i].issue.id = id THEN <<i>> ELSE <<>>)
             \o from(i + 1)
  IN  from(1)

\* the keys of issueCreationIndexes, in the order of their first creation
createdIds(events) == IdsOf([i \in 1..Len(SelectSeq(events, IsCreated)) |->
                               SelectSeq(events, IsCreated)[i].issue])

RECURSIVE duplicateIssues(_, _)
duplicateIssues(events, ids) ==
  IF ids = <<>> THEN <<>>
  ELSE (IF Len(creationIndexes(events, Head(ids))) > 1
        THEN <<DuplicateIssueId(Head(ids), creationIndexes(events, Head(ids)))>> ELSE <<>>)
       \o duplicateIssues(events, Tail(ids))

RECURSIVE referenceIssues(_, _, _)
\* second pass: operations on and links to ids that have no issue
referenceIssues(events, i, validIssueIds) ==
  IF i > Len(events) THEN <<>>
  ELSE (IF events[i]._type \in {"IssuePatched", "IssueStatusSet"}
           /\ events[i].id \notin validIssueIds
        THEN <<IndexedIssue("MissingIssue", events[i].id, i)>> ELSE <<>>)
       \o (IF events[i]._type = "LinkAdded" /\ events[i].link.from \notin validIssueIds
           THEN <<OrphanedLink(i, events[i].link)>> ELSE <<>>)
       \o (IF events[i]._type = "LinkAdded" /\ events[i].link.to \notin validIssueIds
           THEN <<OrphanedLink(i, events[i].link)>> ELSE <<>>)
       \o referenceIssues(events, i + 1, validIssueIds)

invariantIssues(state) ==
  [i \in 1..Len(validateInvariants(state)) |-> InvariantViolation(validateInvariants(state)[i])]

integrityIssues(events) ==
  eventIssues(events, 1)
  \o duplicateIssues(events, AddIds(<<>>, createdIds(events)))
  \o referenceIssues(events, 1, IssueIds(materializeFromEvents(events)))
  \o invariantIssues(materializeFromEvents(events))

verifyIntegrity(events) ==
  [healthy |-> integrityIssues(events) = <<>>, issues |-> integrityIssues(events)]

\* the indexes one integrity issue marks for removal
removedOf(issue) ==
  IF issue.type = "DuplicateIssueId"
  THEN {issue.eventIndexes[k] : k \in 2..Len(issue.eventIndexes)}
  ELSE IF issue.type = "OrphanedLink" THEN {issue.linkIndex}
  ELSE IF issue.type = "InvariantViolation" THEN {}
  ELSE {issue.eventIndex}

\* removeIssueIds: the ids of InvalidIssueId issues
removeIssueIds(issues) ==
  {issues[k].issueId : k \in {n \in 1..Len(issues) : issues[n].type = "InvalidIssueId"}}

\* an event that refers to a removed id
refersTo(e, ids) ==
  CASE e._type \in {"IssuePatched", "IssueStatusSet"} -> e.id \in ids
    [] e._type = "LinkAdded" -> e.link.from \in ids \/ e.link.to \in ids
    [] e._type = "LinkRemoved" -> e.from \in ids \/ e.to \in ids
    [] OTHER -> FALSE

removeIndexes(events) ==
  LET issues == integrityIssues(events)
  IN  UNION {removedOf(issues[k]) : k \in 1..Len(issues)}
      \cup {i \in 1..Len(events) : refersTo(events[i], removeIssueIds(issues))}

\* events.filter((_, i) => !removeIndexes.has(i))
without(events, indexes) ==
  LET RECURSIVE from(_)
      from(i) ==
        IF i > Len(events) THEN <<>>
        ELSE (IF i \in indexes THEN <<>> ELSE <<events[i]>>) \o from(i + 1)
  IN  from(1)

repairEvents(events) ==
  IF verifyIntegrity(events).healthy
  THEN [events |-> events, removed |-> 0]
  ELSE [events |-> without(events, removeIndexes(events)),
        removed |-> Cardinality(removeIndexes(events))]

----------------------------------------------------------------------------
(* Retry: withRetry(), one action per awaited step *)

DefaultMaxAttempts == 3

DefaultInitialDelayMs == 100

DefaultMaxDelayMs == 5000

DefaultBackoffMultiplier == 2

RECURSIVE pow(_, _)
pow(x, n) == IF n = 0 THEN 1 ELSE x * pow(x, n - 1)

\* a retry strategy that retries after every error
retryAll(error) == TRUE

\* defaultIsRetryable
isRetryable(error) ==
  CASE error = "LockTimeout" -> TRUE
    [] error \in {"ParseError", "Corruption"} -> FALSE
    [] error = "PermissionDenied" -> FALSE
    [] error = "DiskFull" -> FALSE
    [] OTHER -> FALSE

\* Math.min(initialDelayMs * backoffMultiplier ** attempt, maxDelayMs)
cappedDelay(attempt) ==
  Min(DefaultInitialDelayMs * pow(DefaultBackoffMultiplier, attempt), DefaultMaxDelayMs)

\* with jitter the delay is anywhere within a quarter of the capped delay;
\* its two ends and its middle stand for the range
calculateDelay(attempt) ==
  {(cappedDelay(attempt) * 3) \div 4, cappedDelay(attempt), (cappedDelay(attempt) * 5) \div 4}

\* what operation() may return
OperationResults == {"ok", "LockTimeout", "ParseError", "Corruption", "DiskFull", "PermissionDenied"}

\* opts = { ...DEFAULT_OPTIONS, ...options }, attempt = 0
WithRetryBegin(maxAttempts) ==
  /\ retry.pc \in {"idle", "returned"}
  /\ retry' = [NoRetry EXCEPT !.pc = IF 0 < maxAttempts THEN "calling" ELSE "exhausted",
                              !.maxAttempts = maxAttempts]
  /\ UNCHANGED exceptRetry

\* one pass of the loop body: await operation() and what follows its result
WithRetryOperation(r) ==
  /\ retry.pc = "calling"
  /\ LET results == Append(retry.results, r)
     IN  IF r = "ok" \/ ~isRetryable(r)
         THEN retry' = [retry EXCEPT !.pc = "returned", !.results = results, !.result = r]
         ELSE IF retry.attempt < retry.maxAttempts - 1
         THEN \E delayMs \in calculateDelay(retry.attempt) :
                retry' = [retry EXCEPT !.pc = "sleeping", !.results = results,
                                       !.onRetry = Append(@, <<retry.attempt + 1, r, delayMs>>)]
         ELSE retry' = [retry EXCEPT !.pc = "exhausted", !.results = results,
                                     !.attempt = @ + 1]
  /\ UNCHANGED exceptRetry

\* await sleep(delayMs) ends; attempt++ and the loop test
WithRetryWake ==
  /\ retry.pc = "sleeping"
  /\ retry' = [retry EXCEPT !.attempt = @ + 1,
                            !.pc = IF retry.attempt + 1 < retry.maxAttempts
                                   THEN "calling" ELSE "exhausted"]
  /\ UNCHANGED exceptRetry

\* return { ok: false, error: lastError! }
WithRetryExhausted ==
  /\ retry.pc = "exhausted"
  /\ retry' = [retry EXCEPT !.pc = "returned",
                            !.result = IF retry.results = <<>> THEN "null"
                                       ELSE retry.results[Len(retry.results)]]
  /\ UNCHANGED exceptRetry

----------------------------------------------------------------------------
(* Retry: CircuitBreaker *)

\* the execute() calls begun in a run
MaxExecutes == 5

\* the last reading of the clock
MaxNow == 4

\* the error execute() returns while the circuit is open
CircuitOpen == "Corruption <circuit-breaker>"

\* new CircuitBreaker(options)
CircuitBreaker(options) ==
  [state |-> "closed", failures |-> 0, successes |-> 0, lastFailureTime |-> 0,
   options |-> options]

\* this.failures > this.options.failureThreshold
thresholdPassed(failures, failureThreshold) == failures > failureThreshold

\* this.failures >= this.options.failureThreshold
thresholdReached(failures, failureThreshold) == failures >= failureThreshold

\* Date.now() - this.lastFailureTime >= this.options.resetTimeoutMs
resetElapsed(b, t) == t - b.lastFailureTime >= b.options.resetTimeoutMs

onSuccess(b) ==
  LET b1 == [b EXCEPT !.failures = 0]
  IN IF b1.state = "half-open"
     THEN LET b2 == [b1 EXCEPT !.successes = @ + 1]
          IN IF b2.successes >= b2.options.successThreshold
             THEN [b2 EXCEPT !.state = "closed", !.successes = 0]
             ELSE b2
     ELSE b1

onFailure(b, t) ==
  LET b1 == [b EXCEPT !.failures = @ + 1, !.lastFailureTime = t]
  IN IF thresholdReached(b1.failures, b1.options.failureThreshold)
     THEN [b1 EXCEPT !.state = "open"]
     ELSE b1

\* execute() before its await: an open circuit whose reset timeout has passed
\* becomes half-open
probing(b, t) ==
  IF b.state = "open" /\ resetElapsed(b, t)
  THEN [b EXCEPT !.state = "half-open", !.successes = 0]
  ELSE b

BreakerNew(options) ==
  /\ breaker = NoBreaker
  /\ breaker' = CircuitBreaker(options)
  /\ UNCHANGED <<bcall, now, btrack>>
  /\ UNCHANGED exceptBreaker

\* execute() up to "await operation()": it returns at once while the circuit is
\* open, and has called the operation otherwise
BreakerExecute(c) ==
  /\ breaker # NoBreaker
  /\ bcall[c].pc = "idle"
  /\ btrack.executes < MaxExecutes
  /\ LET b == probing(breaker, now)
         seq == btrack.executes + 1
     IN /\ breaker' = b
        /\ IF b.state = "open"
           THEN /\ bcall' = [bcall EXCEPT ![c] = [pc |-> "idle", seq |-> seq,
                                                  result |-> CircuitOpen,
                                                  invoked |-> FALSE]]
                /\ btrack' = [btrack EXCEPT !.executes = seq, !.rejected = @ + 1]
           ELSE /\ bcall' = [bcall EXCEPT ![c] = [pc |-> "awaiting", seq |-> seq,
                                                  result |-> "pending",
                                                  invoked |-> TRUE]]
                /\ btrack' = [btrack EXCEPT !.executes = seq]
  /\ UNCHANGED <<now>>
  /\ UNCHANGED exceptBreaker

\* the operation's promise settles with result r: onSuccess() or onFailure(),
\* then return result
BreakerSettle(c, r) ==
  /\ bcall[c].pc = "awaiting"
  /\ bcall' = [bcall EXCEPT ![c].pc = "idle", ![c].result = r]
  /\ IF r = "ok"
     THEN /\ breaker' = onSuccess(breaker)
          /\ btrack' = [btrack EXCEPT !.streak = 0]
     ELSE /\ breaker' = onFailure(breaker, now)
          /\ btrack' = [btrack EXCEPT !.streak = @ + 1, !.failedAt = now]
  /\ UNCHANGED <<now>>
  /\ UNCHANGED exceptBreaker

\* reset()
BreakerReset ==
  /\ breaker # NoBreaker
  /\ breaker' = [breaker EXCEPT !.state = "closed", !.failures = 0,
                                !.successes = 0, !.lastFailureTime = 0]
  /\ btrack' = [btrack EXCEPT !.streak = 0]
  /\ UNCHANGED <<bcall, now>>
  /\ UNCHANGED exceptBreaker

\* time passes
BreakerTick ==
  /\ breaker # NoBreaker
  /\ now < MaxNow
  /\ now' = now + 1
  /\ UNCHANGED <<breaker, bcall, btrack>>
  /\ UNCHANGED exceptBreaker

----------------------------------------------------------------------------
(* Embed: makeTrinkets *)

\* the reads of the embedding API begun in a run
MaxReads == 2

\* the store and cache calls that fail in a run
EmbedFaults == 1

TrinketsFault == ttrack.made /\ ttrack.faults < EmbedFaults

TrinketsSpend(t) == [t EXCEPT !.faults = @ + 1]

TrinketsBusy(c) == \E d \in Callers \ {c} : tcall[d].pc # "idle"

\* makeTrinkets(opts), opts.cache empty when there is one
makeTrinkets(c) ==
  /\ ~ttrack.made
  /\ cache' = c
  /\ ttrack' = [ttrack EXCEPT !.made = TRUE]
  /\ UNCHANGED <<eventLog, inMemoryGraph, inflightMaterialize, tcall>>
  /\ UNCHANGED exceptEmbed

\* createIssue(input), patchIssue, setStatus, addLink up to their first await:
\* the domain function is called and will append event
MutationBegin(c, op, event) ==
  /\ ttrack.made
  /\ tcall[c].pc = "idle"
  /\ \A d \in Callers : tcall[d].event # event
  /\ event \notin ttrack.completed
  /\ tcall' = [tcall EXCEPT ![c] = [NoTrinketsCall EXCEPT !.op = op, !.pc = "append",
                                                      !.event = event]]
  /\ ttrack' = [ttrack EXCEPT !.overlap = @ \/ TrinketsBusy(c)]
  /\ UNCHANGED <<eventLog, cache, inMemoryGraph, inflightMaterialize>>
  /\ UNCHANGED exceptEmbed

\* the call of caller c is over with this result. A mutation returns it, and is
\* completed when it is ok; getGraph()'s promise inflightMaterialize settles with
\* it: the caller that made the promise clears inflightMaterialize and returns
\* the result, and so does every caller that was handed the same promise
Finished(c, kind, value, t) ==
  IF tcall[c].op = "getGraph"
  THEN /\ tcall' = [d \in Callers |->
                      IF d = c \/ tcall[d].pc = "joined"
                      THEN [tcall[d] EXCEPT !.pc = "idle",
                                            !.result = [kind |-> kind, value |-> value]]
                      ELSE tcall[d]]
       /\ inflightMaterialize' = Null
       /\ ttrack' = t
  ELSE /\ tcall' = [tcall EXCEPT ![c].pc = "idle",
                                 ![c].result = [kind |-> kind, value |-> Null]]
       /\ UNCHANGED inflightMaterialize
       /\ ttrack' = IF kind = "ok"
                    THEN [t EXCEPT !.completed = @ \cup {tcall[c].event}]
                    ELSE t

\* opts.store.append(event) inside the domain function, and its result; after
\* ok the wrapper calls refresh()
MutationAppend(c) ==
  /\ tcall[c].pc = "append"
  /\ \/ /\ eventLog' = Append(eventLog, tcall[c].event)
        /\ tcall' = [tcall EXCEPT ![c].pc = "materialize"]
        /\ UNCHANGED <<ttrack, inflightMaterialize>>
     \/ /\ TrinketsFault
        /\ Finished(c, "DiskFull", Null, TrinketsSpend(ttrack))
        /\ UNCHANGED eventLog
  /\ UNCHANGED <<cache, inMemoryGraph>>
  /\ UNCHANGED exceptEmbed

\* what the wrapper returns when refresh() failed: createIssue returns the issue
\* all the same, the others return the error
refreshFailed(op, error) == IF op = "createIssue" THEN "ok" ELSE error

\* materializeFresh(): opts.store.materialize() reads the log
TrinketsMaterialize(c) ==
  /\ tcall[c].pc = "materialize"
  /\ \/ /\ tcall' = [tcall EXCEPT ![c].pc = "materialized",
                                  ![c].value = materializeFromEvents(eventLog)]
        /\ UNCHANGED <<ttrack, inflightMaterialize>>
     \/ /\ TrinketsFault
        /\ Finished(c, refreshFailed(tcall[c].op, "Corruption"), Null,
                    TrinketsSpend(ttrack))
  /\ UNCHANGED <<eventLog, cache, inMemoryGraph>>
  /\ UNCHANGED exceptEmbed

\* materializeFresh() after its first await: inMemoryGraph = materializeResult.value,
\* then persistToCache()
TrinketsMaterialized(c) ==
  /\ tcall[c].pc = "materialized"
  /\ inMemoryGraph' = tcall[c].value
  /\ IF cache = Absent
     THEN Finished(c, "ok", tcall[c].value, ttrack)
     ELSE /\ tcall' = [tcall EXCEPT ![c].pc = "persist"]
          /\ UNCHANGED <<ttrack, inflightMaterialize>>
  /\ UNCHANGED <<eventLog, cache>>
  /\ UNCHANGED exceptEmbed

\* persistToCache(): opts.cache.persist(g), its failure ignored
TrinketsPersist(c) ==
  /\ tcall[c].pc = "persist"
  /\ \/ /\ cache' = tcall[c].value
        /\ Finished(c, "ok", tcall[c].value, ttrack)
     \/ /\ TrinketsFault
        /\ UNCHANGED cache
        /\ Finished(c, "ok", tcall[c].value, TrinketsSpend(ttrack))
  /\ UNCHANGED <<eventLog, inMemoryGraph>>
  /\ UNCHANGED exceptEmbed

\* getGraph() up to its first await; must records the mutations that had
\* returned ok when it was called
getGraph(c) ==
  /\ ttrack.made
  /\ tcall[c].pc = "idle"
  /\ ttrack.reads < MaxReads
  /\ LET call == [NoTrinketsCall EXCEPT !.op = "getGraph", !.must = ttrack.completed]
         t == [ttrack EXCEPT !.reads = @ + 1, !.overlap = @ \/ TrinketsBusy(c)]
     IN IF inMemoryGraph # Null
        THEN /\ tcall' = [tcall EXCEPT ![c] =
                            [call EXCEPT !.result = [kind |-> "ok", value |-> inMemoryGraph]]]
             /\ ttrack' = t
             /\ UNCHANGED inflightMaterialize
        ELSE IF inflightMaterialize # Null
        THEN /\ tcall' = [tcall EXCEPT ![c] = [call EXCEPT !.pc = "joined"]]
             /\ ttrack' = t
             /\ UNCHANGED inflightMaterialize
        ELSE /\ inflightMaterialize' = [owner |-> c]
             /\ tcall' = [tcall EXCEPT ![c] =
                            [call EXCEPT !.pc = IF cache = Absent THEN "materialize"
                                                ELSE "hydrate"]]
             /\ ttrack' = t
  /\ UNCHANGED <<eventLog, cache, inMemoryGraph>>
  /\ UNCHANGED exceptEmbed

\* hydrateFromCache(): opts.cache.hydrate() reads the cache; null when it fails
GetGraphHydrate(c) ==
  /\ tcall[c].pc = "hydrate"
  /\ \/ /\ tcall' = [tcall EXCEPT ![c].pc = "hydrated", ![c].value = cache]
        /\ UNCHANGED ttrack
     \/ /\ TrinketsFault
        /\ tcall' = [tcall EXCEPT ![c].pc = "hydrated", ![c].value = Null]
        /\ ttrack' = TrinketsSpend(ttrack)
  /\ UNCHANGED <<eventLog, cache, inMemoryGraph, inflightMaterialize>>
  /\ UNCHANGED exceptEmbed

\* getGraph() after hydrateFromCache(): if (cached) { inMemoryGraph = cached;
\* return ok(cached) }, materializeFresh() otherwise
GetGraphHydrated(c) ==
  /\ tcall[c].pc = "hydrated"
  /\ IF tcall[c].value # Null
     THEN /\ inMemoryGraph' = tcall[c].value
          /\ Finished(c, "ok", tcall[c].value, ttrack)
     ELSE /\ tcall' = [tcall EXCEPT ![c].pc = "materialize"]
          /\ UNCHANGED <<inMemoryGraph, inflightMaterialize, ttrack>>
  /\ UNCHANGED <<eventLog, cache>>
  /\ UNCHANGED exceptEmbed

----------------------------------------------------------------------------
(* Store specifications *)

LinkX == NewLink("a", "b", "blocks", 1)

LinkY == NewLink("a", "b", "related", 1)

StoreEvents ==
  { IssueCreated(NewIssue("a", "t1", "feature", 1, "open", 1)),
    IssueStatusSet("a", "done", 2),
    LinkAdded(LinkX),
    LinkAdded(LinkY),
    LinkRemoved("a", "b", "blocks", 2) }

AppendCall == \E a \in Callers, e \in StoreEvents : AppendBegin(a, e)

AppendLock == \E a \in Callers : AppendLockGranted(a)

AppendTimeout == \E a \in Callers : AppendLockTimeout(a)

AppendLockFails == \E a \in Callers : AppendLockRejected(a)

AppendQueuedUnlock == \E a \in Callers : AppendUnlockQueued(a)

AppendWriteSync == \E a \in Callers : AppendWrite(a)

AppendReturn == \E a \in Callers : AppendFinally(a)

AppendSteps ==
  \/ AppendCall
  \/ AppendLock
  \/ AppendTimeout
  \/ AppendLockFails
  \/ AppendQueuedUnlock
  \/ AppendWriteSync
  \/ AppendReturn

MatCall == \E m \in Callers : MatBegin(m)

MatLock == \E m \in Callers : MatLockGranted(m)

MatTimeout == \E m \in Callers : MatLockTimeout(m)

MatLateLock == \E m \in Callers : MatLockLeaked(m)

MatLoadMeta == \E m \in Callers : MatReadMeta(m)

MatLoadState == \E m \in Callers : MatReadState(m)

MatSizes == \E m \in Callers : MatStat(m)

MatTail == \E m \in Callers : MatReadTail(m)

MatFullScan == \E m \in Callers : MatScan(m)

MatStateTmp == \E m \in Callers : MatWriteStateTmp(m)

MatMetaTmp == \E m \in Callers : MatWriteMetaTmp(m)

MatPublishState == \E m \in Callers : MatRenameState(m)

MatPublishMeta == \E m \in Callers : MatRenameMeta(m)

MatCleanState == \E m \in Callers : MatRemoveStateTmp(m)

MatCleanMeta == \E m \in Callers : MatRemoveMetaTmp(m)

MatReturn == \E m \in Callers : MatFinally(m)

MatSteps ==
  \/ MatCall
  \/ MatLock
  \/ MatTimeout
  \/ MatLateLock
  \/ MatLoadMeta
  \/ MatLoadState
  \/ MatSizes
  \/ MatTail
  \/ MatFullScan
  \/ MatStateTmp
  \/ MatMetaTmp
  \/ MatPublishState
  \/ MatPublishMeta
  \/ MatCleanState
  \/ MatCleanMeta
  \/ MatReturn

\* Spec: one appender and two materializers whose steps interleave
SpecAppenders == 1

SpecMaterializers == 2

SpecAppends == 1

SpecMats == 2

SpecFaults == 1

Init == StoreInit(Quota(SpecAppenders, SpecMaterializers, SpecAppends, SpecMats, SpecFaults, 0, TRUE))

Next == AppendSteps \/ MatSteps

Spec == Init /\ [][Next]_vars

\* SeqSpec: calls one after the other, each awaited before the next
SeqAppends == 3

SeqMats == 2

SeqFaults == 1

SeqInit == StoreInit(Quota(1, 1, SeqAppends, SeqMats, SeqFaults, 0, FALSE))

SeqNext == AppendSteps \/ MatSteps

SeqSpec == SeqInit /\ [][SeqNext]_vars

\* AppendSpec: two appenders and another program that may keep a log file locked
AppendCalls == 2

AppendFaults == 1

AppendHolds == 1

HolderTakes == \E f \in {"issues", "links"} : HolderLock(f)

HolderDrops == \E f \in {"issues", "links"} : HolderUnlock(f)

AppendInit == StoreInit(Quota(2, 0, AppendCalls, 0, AppendFaults, AppendHolds, TRUE))

AppendNext == AppendSteps \/ HolderTakes \/ HolderDrops

\* the event loop runs every continuation that is ready and every timer fires
AppendFair ==
  \A a \in Callers :
    /\ WF_vars(AppendLockGranted(a) \/ AppendLockTimeout(a))
    /\ WF_vars(AppendUnlockQueued(a))
    /\ WF_vars(AppendWrite(a))
    /\ WF_vars(AppendFinally(a))

AppendSpec == AppendInit /\ [][AppendNext]_vars /\ AppendFair

\* FaultSpec: calls one after the other on a store opened with validateEvents,
\* whose files something else may damage between two calls
FaultAppends == 2

FaultMats == 2

FaultFaults == 2

RejectedEvents ==
  { IssueStatusSet("a", "closed", 2),
    LinkAdded(NewLink("a", "b", "depends", 1)) }

\* state.json is deleted, overwritten with text that is not JSON, or replaced
\* by the snapshot of another format version
SnapshotDamage(kind) ==
  /\ Quiet /\ Fault
  /\ \/ /\ kind = "missing" /\ stateFile # NoFile
        /\ stateFile' = NoFile
     \/ /\ kind = "unparsable" /\ stateFile # Unparsable
        /\ stateFile' = Unparsable
     \/ /\ kind = "version" /\ snapshotCondition(stateFile) = "hit"
        /\ stateFile' = [stateFile EXCEPT !.version = STATE_VERSION + 1]
  /\ quota' = Spend(quota, "faults")
  /\ UNCHANGED <<libVars, pureVars, fileVars, metaFile, stateTmp, metaTmp, appendVars, matVars, track>>

damaged(file, i) == [j \in 1..Max(Len(file), i) |-> IF j = i THEN BadLine ELSE file[j]]

\* a line of a log file is overwritten with, or a new last line is, text that is not JSON
LogDamage(path, i) ==
  /\ Quiet /\ Fault
  /\ issuesFile' = IF path = "issues" THEN damaged(issuesFile, i) ELSE issuesFile
  /\ linksFile' = IF path = "links" THEN damaged(linksFile, i) ELSE linksFile
  /\ quota' = Spend(quota, "faults")
  /\ UNCHANGED <<libVars, pureVars, snapVars, appendVars, matVars, track>>

FaultAppendCall == \E a \in Callers, e \in StoreEvents \cup RejectedEvents : AppendBegin(a, e)

SnapshotDamaged == \E kind \in {"missing", "unparsable", "version"} : SnapshotDamage(kind)

IssuesLogDamaged == \E i \in 1..(Len(issuesFile) + 1) : LogDamage("issues", i)

LinksLogDamaged == \E i \in 1..(Len(linksFile) + 1) : LogDamage("links", i)

FaultInit == StoreInit(Validating(Quota(1, 1, FaultAppends, FaultMats, FaultFaults, 0, FALSE)))

FaultNext ==
  \/ FaultAppendCall
  \/ AppendLock
  \/ AppendTimeout
  \/ AppendLockFails
  \/ AppendQueuedUnlock
  \/ AppendWriteSync
  \/ AppendReturn
  \/ MatSteps
  \/ SnapshotDamaged
  \/ IssuesLogDamaged
  \/ LinksLogDamaged

FaultSpec == FaultInit /\ [][FaultNext]_vars

----------------------------------------------------------------------------
(* DomainSpec: two callers of createIssue and addLink, and a materializer *)

DomainAppends == 2

DomainMats == 1

DomainFaults == 1

\* two digests that share their first four characters
Digests ==
  { <<"p", "q", "r", "s", "a", "a", "a", "a">>,
    <<"p", "q", "r", "s", "b", "b", "b", "b">> }

Stamps == {"0a"}

\* a self-link and a link between two issues
LinkEnds == {<<"a", "a">>, <<"a", "b">>}

CreateIssueCall == \E a \in Callers : CreateIssueBegin(a)

CreateIssueId == \E a \in Callers, base \in Digests, stamp \in Stamps : CreateIssueAppend(a, base, stamp)

AddLinkCall == \E a \in Callers, ends \in LinkEnds, type \in DepTypes : addLink(a, ends[1], ends[2], type)

DomainInit == StoreInit(Quota(2, 1, DomainAppends, DomainMats, DomainFaults, 0, TRUE))

DomainNext ==
  \/ CreateIssueCall
  \/ CreateIssueId
  \/ AddLinkCall
  \/ AppendLock
  \/ AppendTimeout
  \/ AppendLockFails
  \/ AppendQueuedUnlock
  \/ AppendWriteSync
  \/ AppendReturn
  \/ MatSteps

DomainSpec == DomainInit /\ [][DomainNext]_vars

----------------------------------------------------------------------------
(* PureSpec: the materializer driven by every event sequence up to MaxHist *)

MaxHist == 4

PoolIssueCreated ==
  { IssueCreated(NewIssue("a", "t1", "feature", 1, "open", 1)),
    IssueCreated(NewIssue("a", "t2", "bug", 2, "open", 2)),
    IssueCreated(NewIssue("b", "t1", "feature", 0, "open", 1)) }

PoolIssuePatched ==
  { IssuePatched("a", [title |-> "t3"], 3),
    IssuePatched("a", [priority |-> 3, kind |-> "chore"], 4) }

PoolIssueStatusSet ==
  { IssueStatusSet("a", "done", 5), IssueStatusSet("a", "open", 6),
    IssueStatusSet("a", "doing", 7), IssueStatusSet("b", "canceled", 5) }

PoolLinkAdded ==
  { LinkAdded(NewLink("a", "b", "blocks", 1)),
    LinkAdded(NewLink("a", "b", "blocks", 2)),
    LinkAdded(NewLink("a", "b", "related", 1)),
    LinkAdded(NewLink("b", "a", "blocks", 1)) }

PoolLinkRemoved ==
  { LinkRemoved("a", "b", "blocks", 7), LinkRemoved("a", "b", "related", 7) }

PureInit == g = EmptyState /\ hist = <<>> /\ StoreIdle

Apply(e) ==
  /\ Len(hist) < MaxHist
  /\ g' = applyEvent(g, e)
  /\ hist' = Append(hist, e)
  /\ UNCHANGED <<storeVars, libVars>>

ApplyIssueCreated == \E e \in PoolIssueCreated : Apply(e)
ApplyIssuePatched == \E e \in PoolIssuePatched : Apply(e)
ApplyIssueStatusSet == \E e \in PoolIssueStatusSet : Apply(e)
ApplyLinkAdded == \E e \in PoolLinkAdded : Apply(e)
ApplyLinkRemoved == \E e \in PoolLinkRemoved : Apply(e)

PureNext ==
  \/ ApplyIssueCreated
  \/ ApplyIssuePatched
  \/ ApplyIssueStatusSet
  \/ ApplyLinkAdded
  \/ ApplyLinkRemoved

PureSpec == PureInit /\ [][PureNext]_vars

----------------------------------------------------------------------------
(* QuerySpec: three issues a, b, c, then links and status changes *)

MaxQuerySteps == 4

QueryPriorities == {0, 1}

QueryLinkAdded ==
  { LinkAdded(NewLink("c", "a", "blocks", 4)),
    LinkAdded(NewLink("c", "b", "blocks", 4)),
    LinkAdded(NewLink("c", "a", "related", 4)),
    LinkAdded(NewLink("a", "b", "blocks", 4)) }

QueryLinkRemoved == { LinkRemoved("a", "b", "blocks", 5) }

QueryStatusSet ==
  { IssueStatusSet("a", "done", 6), IssueStatusSet("b", "done", 6),
    IssueStatusSet("c", "done", 6), IssueStatusSet("a", "doing", 6),
    IssueStatusSet("b", "canceled", 6) }

QueryInit ==
  \E pa \in QueryPriorities, pb \in QueryPriorities, pc \in QueryPriorities :
    /\ hist = << IssueCreated(NewIssue("a", "A", "feature", pa, "open", 1)),
                 IssueCreated(NewIssue("b", "B", "feature", pb, "open", 2)),
                 IssueCreated(NewIssue("c", "C", "feature", pc, "open", 3)) >>
    /\ g = materializeFromEvents(hist)
    /\ StoreIdle

QueryApply(e) ==
  /\ Len(hist) < 3 + MaxQuerySteps
  /\ g' = applyEvent(g, e)
  /\ hist' = Append(hist, e)
  /\ UNCHANGED <<storeVars, libVars>>

QueryAddLink == \E e \in QueryLinkAdded : QueryApply(e)
QueryRemoveLink == \E e \in QueryLinkRemoved : QueryApply(e)
QuerySetStatus == \E e \in QueryStatusSet : QueryApply(e)

QueryNext ==
  \/ QueryAddLink
  \/ QueryRemoveLink
  \/ QuerySetStatus

QuerySpec == QueryInit /\ [][QueryNext]_vars

----------------------------------------------------------------------------
(* IndexSpec: issues of several priorities, kinds and labels, and filters *)

MaxIndexEvents == 4

Labelled(issue, labels) == [issue EXCEPT !.labels = labels]

IndexIssues ==
  { IssueCreated(NewIssue("a", "A", "feature", 1, "open", 1)),
    IssueCreated(Labelled(NewIssue("a", "A", "bug", 0, "open", 1), <<"x">>)),
    IssueCreated(Labelled(NewIssue("b", "B", "bug", 1, "open", 1), <<"x", "x">>)),
    IssueCreated(NewIssue("b", "B", "feature", 1, "doing", 2)),
    IssueCreated(Labelled(NewIssue("c", "C", "bug", 0, "open", 1), <<"y", "x">>)),
    IssueCreated(NewIssue("c", "C", "feature", 1, "done", 1)) }

IndexChanges ==
  { LinkAdded(NewLink("a", "b", "blocks", 4)),
    LinkAdded(NewLink("c", "a", "blocks", 4)),
    LinkAdded(NewLink("c", "b", "related", 4)),
    IssueStatusSet("a", "done", 6),
    IssueStatusSet("c", "canceled", 6) }

KindsOpts == {EmptyMap, [kinds |-> <<>>], [kinds |-> <<"bug">>], [kinds |-> <<"feature", "bug">>]}

PrioritiesOpts ==
  {EmptyMap, [priorities |-> <<>>], [priorities |-> <<0>>], [priorities |-> <<1, 0>>],
   [priorities |-> <<1, 1>>], [priorities |-> <<3>>]}

LabelOpts == {EmptyMap, [label |-> ""], [label |-> "x"], [label |-> "z"]}

FilterOpts ==
  {Spread(Spread(k, p), l) : k \in KindsOpts, p \in PrioritiesOpts, l \in LabelOpts}

IndexApply(e) ==
  /\ Len(hist) < MaxIndexEvents
  /\ g' = applyEvent(g, e)
  /\ hist' = Append(hist, e)
  /\ UNCHANGED <<storeVars, libVars>>

IndexAddIssue == \E e \in IndexIssues : IndexApply(e)

IndexChange == \E e \in IndexChanges : IndexApply(e)

IndexNext == IndexAddIssue \/ IndexChange

IndexSpec == PureInit /\ [][IndexNext]_vars

----------------------------------------------------------------------------
(* GraphSpec: graphs over a, b, c built from issue and link events *)

MaxGraphEvents == 4

GraphIds == {"a", "b", "c"}

GraphIssues ==
  { IssueCreated(NewIssue("a", "t", "feature", 1, "open", 1)),
    IssueCreated(NewIssue("b", "t", "feature", 1, "open", 1)),
    IssueCreated(NewIssue("c", "t", "feature", 1, "done", 1)),
    IssueCreated(NewIssue("a", "t", "feature", 1, "done", 1)),
    IssueCreated(NewIssue("b", "t", "feature", 1, "canceled", 1)) }

GraphLinks ==
  { LinkAdded(NewLink(from, to, type, 1)) :
      from \in GraphIds, to \in GraphIds, type \in {"blocks", "parent-child"} }

GraphApply(e) ==
  /\ Len(hist) < MaxGraphEvents
  /\ g' = applyEvent(g, e)
  /\ hist' = Append(hist, e)
  /\ UNCHANGED <<storeVars, libVars>>

GraphAddIssue == \E e \in GraphIssues : GraphApply(e)

GraphAddLink == \E e \in GraphLinks : GraphApply(e)

GraphNext == GraphAddIssue \/ GraphAddLink

GraphSpec == PureInit /\ [][GraphNext]_vars

----------------------------------------------------------------------------
(* IntegritySpec: logs with duplicate creations and other damage *)

MaxLogEvents == 5

LogEvents ==
  { IssueCreated(NewIssue("bd-p", "P", "feature", 1, "open", 1)),
    IssueCreated(NewIssue("bd-p", "P", "feature", 1, "done", 1)),
    IssueCreated(NewIssue("bd-c", "C", "feature", 1, "open", 1)),
    IssueCreated(NewIssue("bd-c", "C", "feature", 1, "done", 1)),
    IssueCreated(NewIssue("zz", "Z", "feature", 1, "open", 1)),
    IssueStatusSet("bd-p", "done", 2),
    IssueStatusSet("bd-z", "done", 2),
    LinkAdded(NewLink("bd-p", "bd-c", "parent-child", 1)),
    LinkAdded(NewLink("bd-p", "bd-p", "blocks", 1)),
    LinkAdded(NewLink("bd-p", "bd-z", "blocks", 1)) }

LogAppend(e) ==
  /\ Len(hist) < MaxLogEvents
  /\ g' = applyEvent(g, e)
  /\ hist' = Append(hist, e)
  /\ UNCHANGED <<storeVars, libVars>>

IntegrityNext == \E e \in LogEvents : LogAppend(e)

IntegritySpec == PureInit /\ [][IntegrityNext]_vars

----------------------------------------------------------------------------
(* RetrySpec: withRetry with the default options, called again and again *)

WithRetryCall == WithRetryBegin(DefaultMaxAttempts)

WithRetryAwait == \E r \in OperationResults : WithRetryOperation(r)

RetryNext == WithRetryCall \/ WithRetryAwait \/ WithRetryWake \/ WithRetryExhausted

RetrySpec == PureInit /\ [][RetryNext]_vars

----------------------------------------------------------------------------
(* BreakerSpec: one CircuitBreaker, its execute() calls overlapping *)

MaxThreshold == 2

MaxResetTimeoutMs == 2

BreakerOptions ==
  [failureThreshold : 1..MaxThreshold, resetTimeoutMs : 1..MaxResetTimeoutMs,
   successThreshold : 1..MaxThreshold]

BreakerResults == {"ok", "Corruption /test"}

BreakerConstruct == \E options \in BreakerOptions : BreakerNew(options)

BreakerCall == \E c \in Callers : BreakerExecute(c)

BreakerAwait == \E c \in Callers, r \in BreakerResults : BreakerSettle(c, r)

BreakerNext ==
  BreakerConstruct \/ BreakerCall \/ BreakerAwait \/ BreakerReset \/ BreakerTick

BreakerSpec == PureInit /\ [][BreakerNext]_vars

----------------------------------------------------------------------------
(* EmbedSpec: one makeTrinkets instance, its calls overlapping *)

Mutations ==
  { <<"createIssue", IssueCreated(NewIssue("a", "t1", "feature", 1, "open", 1))>>,
    <<"addLink", LinkAdded(NewLink("a", "b", "blocks", 1))>> }

TrinketsMake == \E c \in {Absent, Null} : makeTrinkets(c)

TrinketsMutate == \E c \in Callers, m \in Mutations : MutationBegin(c, m[1], m[2])

TrinketsAppend == \E c \in Callers : MutationAppend(c)

TrinketsRefresh ==
  \E c \in Callers :
    TrinketsMaterialize(c) \/ TrinketsMaterialized(c) \/ TrinketsPersist(c)

TrinketsGetGraph ==
  \E c \in Callers : getGraph(c) \/ GetGraphHydrate(c) \/ GetGraphHydrated(c)

EmbedNext ==
  TrinketsMake \/ TrinketsMutate \/ TrinketsAppend \/ TrinketsRefresh \/ TrinketsGetGraph

EmbedSpec == PureInit /\ [][EmbedNext]_vars

----------------------------------------------------------------------------
(* ReplaySpec: materializeFromEvents called twice on the same events *)

MaxReplayEvents == 4

MaxReplays == 2

ReplayEvents ==
  { IssueCreated(NewIssue("a", "t1", "feature", 1, "open", 1)),
    IssuePatched("a", [title |-> "t3"], 3),
    IssueStatusSet("a", "done", 5),
    LinkAdded(NewLink("a", "b", "blocks", 1)),
    LinkAdded(NewLink("a", "b", "related", 1)),
    LinkRemoved("a", "b", "blocks", 7) }

\* a materializer whose state outlives the call
keptGraphState(last) == last

\* let g = { issues: new Map(), outgoing: new Map(), incoming: new Map() }
newGraphState(last) == EmptyState

\* the caller puts together the events it will pass
ReplayGiven(e) ==
  /\ replay = NoReplay
  /\ Len(hist) < MaxReplayEvents
  /\ hist' = Append(hist, e)
  /\ UNCHANGED <<g, replay, storeVars, retry, breakerVars, embedVars>>

\* materializeFromEvents(hist) is called
ReplayCall ==
  /\ replay.pc = "idle"
  /\ Len(replay.results) < MaxReplays
  /\ replay' = [replay EXCEPT !.pc = "loop", !.i = 1, !.g = newGraphState(replay.last)]
  /\ UNCHANGED <<pureVars, storeVars, retry, breakerVars, embedVars>>

\* for (const e of events) g = applyEvent(g, e)
ReplayLoop ==
  /\ replay.pc = "loop"
  /\ replay.i <= Len(hist)
  /\ replay' = [replay EXCEPT !.g = applyEvent(@, hist[replay.i]), !.i = @ + 1]
  /\ UNCHANGED <<pureVars, storeVars, retry, breakerVars, embedVars>>

\* return g
ReplayReturn ==
  /\ replay.pc = "loop"
  /\ replay.i > Len(hist)
  /\ replay' = [replay EXCEPT !.pc = "idle", !.last = replay.g,
                              !.results = Append(@, replay.g)]
  /\ UNCHANGED <<pureVars, storeVars, retry, breakerVars, embedVars>>

ReplayGive == \E e \in ReplayEvents : ReplayGiven(e)

ReplayNext == ReplayGive \/ ReplayCall \/ ReplayLoop \/ ReplayReturn

ReplaySpec == PureInit /\ [][ReplayNext]_vars

----------------------------------------------------------------------------
(* TruncSpec: calls one after the other on a store whose log files something *)
(* else may cut short between two calls                                      *)

TruncAppends == 2

TruncMats == 2

TruncFaults == 1

\* a log file is truncated to its first k lines, or reset when k is 0
LogTruncate(path, k) ==
  /\ Quiet /\ Fault
  /\ issuesFile' = IF path = "issues" THEN SubSeq(issuesFile, 1, k) ELSE issuesFile
  /\ linksFile' = IF path = "links" THEN SubSeq(linksFile, 1, k) ELSE linksFile
  /\ quota' = Spend(quota, "faults")
  /\ UNCHANGED <<libVars, pureVars, snapVars, appendVars, matVars, track>>

IssuesLogTruncated == \E k \in 0..(Len(issuesFile) - 1) : LogTruncate("issues", k)

LinksLogTruncated == \E k \in 0..(Len(linksFile) - 1) : LogTruncate("links", k)

TruncInit == StoreInit(Quota(1, 1, TruncAppends, TruncMats, TruncFaults, 0, FALSE))

TruncNext == AppendSteps \/ MatSteps \/ IssuesLogTruncated \/ LinksLogTruncated

TruncSpec == TruncInit /\ [][TruncNext]_vars

----------------------------------------------------------------------------
(* LockSpec: an appender, a materializer and another program that may keep *)
(* a log file or the lock file locked                                       *)

LockAppends == 1

LockMats == 2

LockFaults == 1

LockHolds == 1

LockTaken == \E f \in DOMAIN lockOwner : HolderLock(f)

LockDropped == \E f \in DOMAIN lockOwner : HolderUnlock(f)

LockInit == StoreInit(Quota(1, 1, LockAppends, LockMats, LockFaults, LockHolds, TRUE))

LockNext == AppendSteps \/ MatSteps \/ LockTaken \/ LockDropped

LockSpec == LockInit /\ [][LockNext]_vars

----------------------------------------------------------------------------
(* Claims about the pure functions *)

Triple(l) == <<l.from, l.to, l.type>>

\* every link held by an adjacency Map
AllLinks(m) == UNION { {m[k][i] : i \in 1..Len(m[k])} : k \in DOMAIN m }

\* how many entries of a list carry the triple t
CountTriple(list, t) == Cardinality({i \in 1..Len(list) : Triple(list[i]) = t})

StatusOf(gs, id) == GetIssue(gs.issues, id).status

ReadyIds(gs) == {ready(gs, NoOpts)[i].id : i \in 1..Len(ready(gs, NoOpts))}

\* the graph of the scenario: issues a, b, c and exactly the links
\* c -> a (blocks) and c -> b (blocks)
ScenarioGraph(gs) ==
  /\ IssueIds(gs) = {"a", "b", "c"}
  /\ {Triple(l) : l \in AllLinks(gs.outgoing)} =
       {<<"c", "a", "blocks">>, <<"c", "b", "blocks">>}
  /\ {Triple(l) : l \in AllLinks(gs.incoming)} =
       {<<"c", "a", "blocks">>, <<"c", "b", "blocks">>}

(* C3 (as claimed): with a, b, c open and the links c -> a, c -> b of type *)
(* blocks, ready() returns exactly a and b; once a and b are done, ready() *)
(* returns exactly c.                                                      *)
C3_ReadyScenario ==
  ScenarioGraph(g) =>
    /\ (StatusOf(g, "a") = "open" /\ StatusOf(g, "b") = "open"
          /\ StatusOf(g, "c") = "open") => ReadyIds(g) = {"a", "b"}
    /\ (StatusOf(g, "a") = "done" /\ StatusOf(g, "b") = "done"
          /\ StatusOf(g, "c") = "open") => ReadyIds(g) = {"c"}

(* C7: for every split of the applied events into a prefix P and a suffix  *)
(* S, folding applyEvent over S from materializeFromEvents(P) equals       *)
(* materializeFromEvents(P followed by S).                                 *)
C7_IncrementalEquivalence ==
  \A k \in 0..Len(hist) :
    applyDelta(materializeFromEvents(SubSeq(hist, 1, k)),
               SubSeq(hist, k + 1, Len(hist)))
      = materializeFromEvents(hist)

\* a split with a non-empty prefix and a suffix that changes the state
C7_Witness ==
  /\ Len(hist) >= 3
  /\ g.issues # <<>> /\ AllLinks(g.outgoing) # {}
  /\ materializeFromEvents(SubSeq(hist, 1, 2)) # materializeFromEvents(hist)
  /\ materializeFromEvents(SubSeq(hist, 1, 2)) # EmptyState

\* the last applied event is a LinkAdded whose triple was already added by
\* event i, with no LinkRemoved of that triple after i
ReAddedAt(i) ==
  LET n == Len(hist)
      t == Triple(hist[n].link)
  IN  /\ i < n
      /\ hist[i]._type = "LinkAdded" /\ Triple(hist[i].link) = t
      /\ \A j \in (i + 1)..(n - 1) :
            ~(hist[j]._type = "LinkRemoved"
              /\ <<hist[j].from, hist[j].to, hist[j].type>> = t)

ReAdded ==
  /\ hist # <<>>
  /\ hist[Len(hist)]._type = "LinkAdded"
  /\ \E i \in 1..Len(hist) : ReAddedAt(i)

(* C8: after LinkAdded is applied a second time for a triple (from, to,    *)
(* type), with no LinkRemoved of the triple in between, outgoing[from] and *)
(* incoming[to] each hold exactly one edge with that triple.               *)
C8_IdempotentReAdd ==
  ReAdded =>
    LET l == hist[Len(hist)].link
    IN  /\ CountTriple(MapGet(g.outgoing, l.from, <<>>), Triple(l)) = 1
        /\ CountTriple(MapGet(g.incoming, l.to, <<>>), Triple(l)) = 1

\* a triple re-added with a different creation time, other links present
C8_Witness ==
  /\ ReAdded
  /\ \E i \in 1..Len(hist) :
        ReAddedAt(i) /\ hist[i].link.createdAt # hist[Len(hist)].link.createdAt
  /\ Cardinality(AllLinks(g.outgoing)) >= 2

----------------------------------------------------------------------------
(* Claims about the incremental store *)

FullReplay == materializeFromEvents(scan(issuesFile, linksFile).value)

\* what a materialize() started now and left undisturbed returns
laterMaterialize ==
  LET meta == readMeta(metaFile)
      cached == readState(stateFile)
      delta == readTail(issuesFile, Min(meta.issuesOffset, safeStat(issuesFile))).value
                 \o readTail(linksFile, Min(meta.linksOffset, safeStat(linksFile))).value
  IN IF cached = Null THEN FullReplay ELSE applyDelta(cached, delta)

\* C1: once every append() and materialize() of a concurrent run has returned
\* (no file operation having failed), the state.json/heads.json pair left on
\* disk hides no event: a later materialize() returns the full replay of the log.
C1_NoHiddenEvent ==
  (Quiet /\ ~track.faulted) => laterMaterialize = FullReplay

Returning(m) == mpc[m] = "finally" /\ mloc[m].result.kind = "ok"

\* C2: in a history of calls made one after the other in which no file
\* operation failed, every materialize() returns materializeFromEvents(scan()),
\* on the bootstrap path and on the incremental path alike.
C2_SequentialRefinement ==
  \A m \in Callers :
    (Returning(m) /\ ~track.faulted) => mloc[m].result.value = FullReplay

C2_Witness ==
  \E m \in Callers :
    /\ Returning(m) /\ ~track.faulted
    /\ mloc[m].cached # Null /\ mloc[m].cached # EmptyState
    /\ mloc[m].result.value = mloc[m].out
    /\ mloc[m].out # mloc[m].cached
    /\ issuesFile # <<>> /\ linksFile # <<>>

CountOf(seq, e) == Cardinality({i \in 1..Len(seq) : seq[i] = e})

WholeLines(file) == \A i \in 1..Len(file) : file[i].newline

\* C4: when every append() of a concurrent run has returned ok, scan() returns
\* exactly the appended events, each as often as it was appended, from whole lines.
C4_AckedOnceEach ==
  (~AnyAppendActive /\ ~track.appendFailed) =>
    /\ WholeLines(issuesFile) /\ WholeLines(linksFile)
    /\ scan(issuesFile, linksFile).ok
    /\ Len(scan(issuesFile, linksFile).value) = Len(acked)
    /\ \A e \in StoreEvents :
         CountOf(scan(issuesFile, linksFile).value, e) = CountOf(acked, e)

C4_Witness ==
  /\ ~AnyAppendActive /\ ~track.appendFailed /\ track.overlap
  /\ Len(acked) >= 2
  /\ pathOf(acked[1]) = pathOf(acked[2])

\* C5: after a materialize() whose snapshot persistence failed at some file
\* operation, the files left on disk remain usable: every later materialize()
\* that returns ok returns the full replay of the log.
C5_UsableAfterFailure ==
  \A m \in Callers : Returning(m) => mloc[m].result.value = FullReplay

\* C6: at every instant of a materialize() that runs without another
\* materialize(), also between its two renames and when it stops at a failed
\* step, state.json reflects every log line before the offsets in heads.json.
C6_SnapshotCoversOffsets ==
  ~track.matOverlap =>
    /\ readMeta(metaFile).issuesOffset <= coverOf(stateFile)[1]
    /\ readMeta(metaFile).linksOffset <= coverOf(stateFile)[2]

C6_Witness ==
  /\ ~track.matOverlap /\ track.overlap
  /\ \E m \in Callers :
       /\ mpc[m] = "renameMeta"
       /\ coverOf(stateFile)[1] + coverOf(stateFile)[2] >
            readMeta(metaFile).issuesOffset + readMeta(metaFile).linksOffset

\* C9: every append() that was called returns.
C9_AppendReturns ==
  \A a \in Callers : (apc[a] # "idle") ~> (apc[a] = "idle")

Proceeded == {"ok"} \cup WriteErrors

----------------------------------------------------------------------------
(* Claims about damaged files and rejected events *)

BadSnapshot == {"missing", "unparsable", "version"}

ColdStart(m) == mpc[m] = "finally" /\ mloc[m].snapshot \in BadSnapshot

\* C11: a materialize() that finds state.json missing, not parsable or of
\* another version (the log being readable and no file operation failing)
\* returns ok with the full replay of the log and leaves on disk the snapshot
\* of that replay with the offsets of the whole log.
C11_ColdCacheFallsBack ==
  \A m \in Callers :
    (ColdStart(m) /\ ~track.faulted /\ scan(issuesFile, linksFile).ok) =>
      /\ mloc[m].result = Ok(FullReplay)
      /\ stateFile = serializeState(FullReplay, <<Len(issuesFile), Len(linksFile)>>)
      /\ metaFile = metaData(FullReplay, Len(issuesFile), Len(linksFile))

C11_Witness ==
  \E m \in Callers :
    /\ ColdStart(m) /\ ~track.faulted
    /\ mloc[m].snapshot = "version"
    /\ mloc[m].meta.issuesOffset + mloc[m].meta.linksOffset > 0
    /\ mloc[m].result.kind = "ok"
    /\ FullReplay # EmptyState

AnyBad(lines) == firstBad(lines) # 0

TailBad(m) ==
  \/ AnyBad(linesFrom(issuesFile, Min(mloc[m].meta.issuesOffset, mloc[m].iSize)))
  \/ AnyBad(linesFrom(linksFile, Min(mloc[m].meta.linksOffset, mloc[m].lSize)))

ScanBad == AnyBad(issuesFile) \/ AnyBad(linksFile)

\* the lines call m has read hold one that does not parse
HitBadLine(m) == TailBad(m) \/ (mloc[m].snapshot \in BadSnapshot /\ ScanBad)

PastReading ==
  {"writeStateTmp", "writeMetaTmp", "renameState", "renameMeta",
   "removeStateTmp", "removeMetaTmp", "finally"}

ParseErrorOnly ==
  /\ ScanBad => scan(issuesFile, linksFile) = ParseError(scan(issuesFile, linksFile).line)
  /\ \A m \in Callers :
       /\ mpc[m] = "scan" => ~TailBad(m)
       /\ (mpc[m] \in PastReading /\ HitBadLine(m)) =>
            mpc[m] = "finally" /\ mloc[m].result = Err("ParseError")

NothingPersisted ==
  \A m \in Callers :
    (mloc[m].result.kind = "ParseError" \/ mloc'[m].result.kind = "ParseError") =>
      UNCHANGED <<fileVars, snapVars>>

\* C12: when a line in the range that scan() or a tail read reads does not
\* parse, the call returns a ParseError carrying no events and no state, and
\* the materialize() that met it writes and renames no snapshot or offset file.
C12_ParseErrorAborts == []ParseErrorOnly /\ [][NothingPersisted]_vars

C12_Witness ==
  \E m \in Callers :
    /\ mpc[m] = "finally" /\ mloc[m].result = Err("ParseError")
    /\ mloc[m].snapshot = "hit" /\ mloc[m].cached # EmptyState
    /\ mloc[m].meta.issuesOffset + mloc[m].meta.linksOffset > 0

\* no line of the file is an event the schema rejects
ValidLines(file) == \A i \in 1..Len(file) : parses(file[i]) => parseLine(file[i]) \notin RejectedEvents

RejectedReturnsParseError ==
  quota.validateEvents =>
    /\ \A a \in Callers :
         aev[a] \in RejectedEvents => apc[a] = "idle" /\ ares[a] = "ParseError"
    /\ ValidLines(issuesFile) /\ ValidLines(linksFile)

RejectionWritesNothing ==
  \A a \in Callers :
    (quota.validateEvents /\ apc[a] = "idle" /\ quota'.appends < quota.appends
       /\ aev'[a] \in RejectedEvents) =>
      apc'[a] = "idle" /\ UNCHANGED fileVars

\* C13: on a store opened with validateEvents, append() of an event the schema
\* rejects returns ParseError, and the step that rejects it leaves issues.jsonl
\* and links.jsonl as they were; no rejected event is ever a line of the log.
C13_RejectedNotWritten == []RejectedReturnsParseError /\ [][RejectionWritesNothing]_vars

C13_Witness ==
  \E a \in Callers :
    /\ aev[a] \in RejectedEvents /\ ares[a] = "ParseError" /\ apc[a] = "idle"
    /\ issuesFile # <<>> /\ linksFile # <<>>

----------------------------------------------------------------------------
(* Claims about the domain calls *)

SelfLinkLine(line) ==
  parses(line) /\ line.json._type = "LinkAdded" /\ line.json.link.from = line.json.link.to

NoSelfLinkLine ==
  /\ \A i \in 1..Len(linksFile) : ~SelfLinkLine(linksFile[i])
  /\ \A i \in 1..Len(issuesFile) : ~SelfLinkLine(issuesFile[i])

\* an addLink call with from = to returns an error at once and leaves both
\* logs and the locks as they were
SelfLinkReturnsError ==
  \A a \in Callers, id \in {"a", "b"}, type \in DepTypes :
    addLink(a, id, id, type) =>
      /\ ares'[a] \notin {"ok", "pending"}
      /\ apc'[a] = "idle"
      /\ UNCHANGED <<fileVars, lockOwner, acked>>

(* C14: addLink with from equal to to returns an error for every link      *)
(* type and appends nothing: the call ends in its first step with an error *)
(* result and both logs unchanged, and no log ever holds a LinkAdded line  *)
(* whose from equals its to.                                               *)
C14_SelfLinkRejected == []NoSelfLinkLine /\ [][SelfLinkReturnsError]_vars

\* each link type has been refused once a link is already in the log
C14_Witness ==
  /\ Len(linksFile) > 0
  /\ \E a \in Callers :
       /\ aev[a] = LinkInput("a", "a", "discovered-from")
       /\ ares[a] = "Corruption" /\ apc[a] = "idle"

\* the lines of issues.jsonl that createIssue appended
CreatedLines == {i \in 1..Len(issuesFile) :
                   parses(issuesFile[i]) /\ issuesFile[i].json._type = "IssueCreated"}

(* C17 (as claimed): createIssue never appends an IssueCreated whose id is *)
(* the id of an issue already created in the log: the IssueCreated lines   *)
(* of issues.jsonl carry pairwise distinct ids, for calls in sequence or   *)
(* overlapping.                                                            *)
C17_DistinctIds ==
  \A i \in CreatedLines, j \in CreatedLines :
    i # j => issuesFile[i].json.issue.id # issuesFile[j].json.issue.id

----------------------------------------------------------------------------
(* Claims about the order of the log *)

(* C16 (as claimed): scan() returns the events in the order in which their *)
(* append() calls completed, for any mix of issue and link events: with no *)
(* call in progress and no injected fault, scan() is the list of the       *)
(* events whose append returned ok, in the order of their returns.         *)
C16_ScanInAppendOrder ==
  (Quiet /\ ~track.faulted) =>
    /\ scan(issuesFile, linksFile).ok
    /\ scan(issuesFile, linksFile).value = acked

----------------------------------------------------------------------------
(* Claims about validateInvariants *)

\* the blocks edges of a Graph State, as pairs
BlocksEdges(gs) ==
  {pair \in GraphIds \X GraphIds :
     \E k \in 1..Len(MapGet(gs.outgoing, pair[1], <<>>)) :
       gs.outgoing[pair[1]][k].to = pair[2] /\ gs.outgoing[pair[1]][k].type = "blocks"}

\* a walk of n[1], ..., n[k] along edges
IsPath(edges, n) == \A i \in 1..(Len(n) - 1) : <<n[i], n[i + 1]>> \in edges

Paths(edges) ==
  {n \in UNION {[1..k -> GraphIds] : k \in 1..Cardinality(GraphIds)} : IsPath(edges, n)}

OnCycle(edges, id) ==
  \E n \in Paths(edges) : n[1] = id /\ <<n[Len(n)], id>> \in edges

HasBlocksCycle(gs) == \E id \in GraphIds : OnCycle(BlocksEdges(gs), id)

\* a blocks cycle that a walk along blocks edges from an issue comes to
HasCycleFromIssue(gs) ==
  \E n \in Paths(BlocksEdges(gs)) :
    n[1] \in IssueIds(gs) /\ OnCycle(BlocksEdges(gs), n[Len(n)])

CycleFlagged(gs) ==
  \E i \in 1..Len(validateInvariants(gs)) : validateInvariants(gs)[i].kind = "cycle"

(* C15 (as claimed): validateInvariants returns a cycle violation if and   *)
(* only if the blocks edges of the Graph State form a directed graph with  *)
(* a cycle.                                                                *)
C15_FlagsEveryCycle == CycleFlagged(g) <=> HasBlocksCycle(g)

(* C15 (amended): validateInvariants returns a cycle violation if and only *)
(* if a blocks cycle can be reached along blocks edges from an issue of    *)
(* the Graph State; links of other types never count.                      *)
C15_FlagsCyclesFromIssues == CycleFlagged(g) <=> HasCycleFromIssue(g)

\* a blocks b blocks c blocks a, with issue b created, is flagged
C15_Witness ==
  /\ BlocksEdges(g) = {<<"a", "b">>, <<"b", "c">>, <<"c", "a">>}
  /\ IssueIds(g) = {"b"}
  /\ validateInvariants(g) = <<CycleError("b")>>

----------------------------------------------------------------------------
(* Claims about the indexed queries *)

(* C18 (as claimed): for every Graph State and every filter of kinds,      *)
(* priorities and label, empty lists included, the indexed ready() over    *)
(* buildIndexes(g) returns the same issues in the same order as the plain  *)
(* ready() over g.                                                         *)
C18_IndexedReadyAgrees ==
  \A opts \in FilterOpts : readyIndexed(buildIndexes(g), opts) = ready(g, opts)

\* some 'blocks' link of the graph targets id and comes from an issue that is
\* neither done nor canceled
BlockedBy(gs, id) ==
  { l \in AllLinks(gs.outgoing) :
      /\ l.type = "blocks" /\ l.to = id
      /\ HasIssue(gs.issues, l.from)
      /\ GetIssue(gs.issues, l.from).status \notin {"done", "canceled"} }

ReadySet(gs) ==
  LET ids == buildIndexes(gs).readyIssues IN {ids[i] : i \in 1..Len(ids)}

NewIssuesFor(gs) == { e.issue : e \in { c \in IndexIssues : ~HasIssue(gs.issues, c.issue.id) } }

\* gs with the issue inserted into the issue mapping, its adjacency maps as they are
WithIssue(gs, issue) == [gs EXCEPT !.issues = SetIssue(gs.issues, issue.id, issue)]

SameKeyIndexes(x, y) ==
  /\ x.byStatus = y.byStatus
  /\ x.byPriority = y.byPriority
  /\ x.byLabel = y.byLabel

\* some 'blocks' link of gs comes from id
BlocksFrom(gs, id) == { l \in AllLinks(gs.incoming) : l.type = "blocks" /\ l.from = id }

(* C31 (as claimed): for a Graph State g and an issue whose id is not in   *)
(* g's issue mapping, indexIssueCreated over buildIndexes(g) yields the     *)
(* same byStatus, byPriority, byLabel and ready-set as buildIndexes over g  *)
(* with the issue inserted and the adjacency maps unchanged.                *)
C31_IncrementalIsRebuild ==
  \A issue \in NewIssuesFor(g) :
    LET incremental == indexIssueCreated(buildIndexes(g), issue)
        rebuilt == buildIndexes(WithIssue(g, issue))
    IN  SameKeyIndexes(incremental, rebuilt) /\ incremental.readyIssues = rebuilt.readyIssues

(* C31 (amended): byStatus, byPriority and byLabel are those of the        *)
(* rebuild for every such issue; the ready-set is that of the rebuild when  *)
(* the issue is done or canceled or g holds no 'blocks' link that comes     *)
(* from the issue's id.                                                     *)
C31_IncrementalIsRebuildUnlessBlocker ==
  \A issue \in NewIssuesFor(g) :
    LET incremental == indexIssueCreated(buildIndexes(g), issue)
        rebuilt == buildIndexes(WithIssue(g, issue))
    IN  /\ SameKeyIndexes(incremental, rebuilt)
        /\ (issue.status \in {"done", "canceled"} \/ BlocksFrom(g, issue.id) = {})
             => incremental.readyIssues = rebuilt.readyIssues

\* g holds the open a and a 'blocks' link from a to the missing b: the doing b,
\* once indexed, is in byStatus and is kept out of the ready-set
C31_Witness ==
  /\ IssueIds(g) = {"a"}
  /\ GetIssue(g.issues, "a").status = "open"
  /\ \E l \in AllLinks(g.incoming) : l.type = "blocks" /\ l.from = "a" /\ l.to = "b"
  /\ \E issue \in NewIssuesFor(g) :
       /\ issue.id = "b" /\ issue.status = "doing"
       /\ BlocksFrom(g, "b") = {}
       /\ indexIssueCreated(buildIndexes(g), issue).byStatus = [open |-> <<"a">>, doing |-> <<"b">>]
       /\ indexIssueCreated(buildIndexes(g), issue).readyIssues = <<"a">>

----------------------------------------------------------------------------
(* Claims about verifyIntegrity and repairEvents *)

\* the log has integrity issues, every one of them a DuplicateIssueId
OnlyDuplicates(events) ==
  /\ ~verifyIntegrity(events).healthy
  /\ \A k \in 1..Len(verifyIntegrity(events).issues) :
       verifyIntegrity(events).issues[k].type = "DuplicateIssueId"

\* the indexes of the IssueCreated events whose id was created earlier
LaterCreations(events) ==
  {i \in 1..Len(events) :
     /\ IsCreated(events[i])
     /\ \E j \in 1..(i - 1) : IsCreated(events[j]) /\ events[j].issue.id = events[i].issue.id}

RemovesLaterCreations(events) ==
  repairEvents(events).events = without(events, LaterCreations(events))

(* C19 (as claimed): for a log whose only integrity issues are             *)
(* DuplicateIssueId, repairEvents removes every IssueCreated of a          *)
(* duplicated id except the first and nothing else, and verifyIntegrity of *)
(* the repaired log is healthy.                                            *)
C19_RepairedIsHealthy ==
  OnlyDuplicates(hist) =>
    /\ RemovesLaterCreations(hist)
    /\ verifyIntegrity(repairEvents(hist).events).healthy

----------------------------------------------------------------------------
(* Claims about withRetry *)

\* every invocation but the last one returned LockTimeout
RetriedOnlyAfterLockTimeout ==
  \A i \in 1..(Len(retry.results) - 1) : retry.results[i] = "LockTimeout"

\* the call goes on only after a LockTimeout
GoesOnOnlyAfterLockTimeout ==
  (retry.pc \in {"calling", "sleeping"} /\ retry.results # <<>>) =>
    retry.results[Len(retry.results)] = "LockTimeout"

\* the call returns what the last invocation returned
ReturnsLastResult ==
  retry.pc = "returned" =>
    /\ retry.results # <<>>
    /\ retry.result = retry.results[Len(retry.results)]

(* C20: withRetry with the default options invokes the operation again     *)
(* only after a LockTimeout: after ParseError, Corruption, DiskFull or     *)
(* PermissionDenied it returns that error after the one invocation, it     *)
(* stops at the first ok, and it never invokes the operation more than     *)
(* maxAttempts times.                                                      *)
C20_RetriesOnlyLockTimeout ==
  /\ RetriedOnlyAfterLockTimeout
  /\ GoesOnOnlyAfterLockTimeout
  /\ ReturnsLastResult
  /\ Len(retry.results) <= DefaultMaxAttempts

\* two lock timeouts, then a full disk ends the call at the third invocation
C20_Witness ==
  /\ retry.pc = "returned" /\ retry.result = "DiskFull"
  /\ retry.results = <<"LockTimeout", "LockTimeout", "DiskFull">>

----------------------------------------------------------------------------
(* Claims about the CircuitBreaker *)

\* an operation called through execute() has just failed, and it is at least the
\* failureThreshold-th to fail in a row
ThresholdFailure(c) ==
  /\ bcall[c].pc = "awaiting" /\ bcall'[c].pc = "idle"
  /\ bcall'[c].result # "ok"
  /\ btrack'.streak >= breaker.options.failureThreshold

OpensAtThreshold == \A c \in Callers : ThresholdFailure(c) => breaker'.state = "open"

\* execute() begins on an open circuit less than resetTimeoutMs after the last
\* failure
CalledWhileOpen(c) ==
  /\ bcall'[c].seq # bcall[c].seq
  /\ breaker.state = "open"
  /\ now - btrack.failedAt < breaker.options.resetTimeoutMs

RejectsWhileOpen ==
  \A c \in Callers :
    CalledWhileOpen(c) =>
      /\ bcall'[c].pc = "idle"
      /\ bcall'[c].result = CircuitOpen
      /\ ~bcall'[c].invoked
      /\ breaker'.state = "open"

\* C21: when the failureThreshold-th operation in a row has failed the breaker is
\* open, and an execute() that begins while it is open and less than
\* resetTimeoutMs after the last failure returns the circuit-breaker-open error
\* without calling the operation
C21_OpensAndRejects == [][OpensAtThreshold /\ RejectsWhileOpen]_vars

\* two operations in flight together both failed, the breaker opened, and the
\* next execute() was turned away
C21_Witness ==
  /\ breaker.state = "open"
  /\ breaker.options.failureThreshold = 2
  /\ btrack.streak = 2
  /\ btrack.rejected > 0
  /\ \E c \in Callers : bcall[c].result = CircuitOpen /\ ~bcall[c].invoked
  /\ \E c \in Callers : bcall[c].result = "Corruption /test"

----------------------------------------------------------------------------
(* Claims about the embedding API *)

\* the graph shows what the event did
Reflects(graph, event) ==
  IF event._type = "IssueCreated"
  THEN HasIssue(graph.issues, event.issue.id)
  ELSE Triple(event.link) \in { Triple(l) : l \in AllLinks(graph.outgoing) }

\* C22: a getGraph() that returned ok returned a graph that reflects every
\* mutation that had returned ok before that getGraph() was called; ready() is
\* ready() of that graph
C22_ReadsReflectMutations ==
  \A c \in Callers :
    (tcall[c].op = "getGraph" /\ tcall[c].pc = "idle" /\ tcall[c].result.kind = "ok")
      => \A event \in tcall[c].must : Reflects(tcall[c].result.value, event)

----------------------------------------------------------------------------
(* Claims about replay *)

----------------------------------------------------------------------------
(* Claims about applyEvent *)

\* no closedAt on an issue that was never done
Undefined == 0

ClosedAtOf(issue) == IF "closedAt" \in DOMAIN issue THEN issue.closedAt ELSE Undefined

LastApplied == hist'[Len(hist')]

\* an IssueStatusSet was applied to an issue the mapping holds
StatusSetApplied ==
  /\ Len(hist') = Len(hist) + 1
  /\ LastApplied._type = "IssueStatusSet"
  /\ HasIssue(g.issues, LastApplied.id)

ClosedAtFollowsStatus ==
  StatusSetApplied =>
    LET e == LastApplied
        before == GetIssue(g.issues, e.id)
        after == GetIssue(g'.issues, e.id)
    IN  /\ after.status = e.status
        /\ e.status = "done" => ClosedAtOf(after) = e.at
        /\ e.status # "done" => ClosedAtOf(after) = ClosedAtOf(before)

\* C24: IssueStatusSet applied to an existing issue sets closedAt to the event's
\* timestamp when the new status is done, and leaves closedAt as it was for
\* open, doing and canceled
C24_ClosedAtOnlyOnDone == [][ClosedAtFollowsStatus]_vars

\* an issue reopened after done, then set to doing, still closed at the time
\* it was done
C24_Witness ==
  /\ Len(hist) = 4
  /\ hist[2] = IssueStatusSet("a", "done", 5)
  /\ hist[3] = IssueStatusSet("a", "open", 6)
  /\ hist[4] = IssueStatusSet("a", "doing", 7)
  /\ HasIssue(g.issues, "a")
  /\ GetIssue(g.issues, "a").status = "doing"
  /\ ClosedAtOf(GetIssue(g.issues, "a")) = 5

\* an IssuePatched or IssueStatusSet was applied whose id the mapping lacks
AbsentIdApplied ==
  /\ Len(hist') = Len(hist) + 1
  /\ LastApplied._type \in {"IssuePatched", "IssueStatusSet"}
  /\ ~HasIssue(g.issues, LastApplied.id)

AbsentIdIsNoOp == AbsentIdApplied => g' = g

\* events[i] is an IssuePatched or IssueStatusSet with no IssueCreated of its id
\* before it
Early(events, i) ==
  /\ events[i]._type \in {"IssuePatched", "IssueStatusSet"}
  /\ \A j \in 1..(i - 1) :
       ~(events[j]._type = "IssueCreated" /\ events[j].issue.id = events[i].id)

RECURSIVE WithoutEarly(_, _)
WithoutEarly(events, n) ==
  IF n = 0 THEN <<>>
  ELSE IF Early(events, n) THEN WithoutEarly(events, n - 1)
  ELSE Append(WithoutEarly(events, n - 1), events[n])

EarlyEventsLeaveNoTrace == g = materializeFromEvents(WithoutEarly(hist, Len(hist)))

\* C25: IssuePatched or IssueStatusSet whose id is not in the issue mapping
\* returns a state equal to the one it was given, and the state reached is the
\* one reached without such events, also when an IssueCreated of the id follows
C25_AbsentIdNoOp == [][AbsentIdIsNoOp]_vars /\ []EarlyEventsLeaveNoTrace

\* a status change and a patch of issue a came before its IssueCreated
C25_Witness ==
  /\ Len(hist) = 4
  /\ hist[1] = IssueStatusSet("a", "done", 5)
  /\ hist[2]._type = "IssuePatched"
  /\ hist[3]._type = "IssueCreated" /\ hist[3].issue.id = "a"
  /\ hist[4]._type = "LinkAdded"
  /\ GetIssue(g.issues, "a") = hist[3].issue

\* an IssueCreated was applied whose id the mapping already holds
CreatedAgain ==
  /\ Len(hist') = Len(hist) + 1
  /\ LastApplied._type = "IssueCreated"
  /\ HasIssue(g.issues, LastApplied.issue.id)

LaterCreatedReplaces ==
  CreatedAgain =>
    /\ GetIssue(g'.issues, LastApplied.issue.id) = LastApplied.issue
    /\ Len(g'.issues) = Len(g.issues)
    /\ \A i \in 1..Len(g.issues) :
         g.issues[i].id # LastApplied.issue.id => g'.issues[i] = g.issues[i]

\* C26: after a second IssueCreated of an id the mapping holds, the mapping holds
\* for that id exactly the second event's issue record, every field replaced
C26_LaterCreatedWins == [][LaterCreatedReplaces]_vars

\* issue a was created, closed and patched, then created again with another
\* record: it is open, unclosed and carries the second record's title
C26_Witness ==
  /\ Len(hist) = 4
  /\ hist[1] = IssueCreated(NewIssue("a", "t1", "feature", 1, "open", 1))
  /\ hist[2] = IssueStatusSet("a", "done", 5)
  /\ hist[3]._type = "IssuePatched"
  /\ hist[4] = IssueCreated(NewIssue("a", "t2", "bug", 2, "open", 2))
  /\ GetIssue(g.issues, "a") = hist[4].issue
  /\ ClosedAtOf(GetIssue(g.issues, "a")) = Undefined

----------------------------------------------------------------------------
(* Claims about the violations of validateInvariants *)

\* the ids that the violations of this kind name
Named(errors, kind) == {errors[i].id : i \in {k \in 1..Len(errors) : errors[k].kind = kind}}

\* the 'parent-child' links from id that point to an issue neither done nor
\* canceled
OpenChildren(gs, id) ==
  { l \in AllLinks(gs.incoming) :
      /\ l.type = "parent-child" /\ l.from = id
      /\ HasIssue(gs.issues, l.to)
      /\ GetIssue(gs.issues, l.to).status \notin {"done", "canceled"} }

\* C28: validateInvariants emits a parent violation naming issue P exactly when P
\* has status done and some 'parent-child' link from P points to an issue whose
\* status is neither done nor canceled
C28_ParentViolations ==
  Named(validateInvariants(g), "parent")
    = { id \in IssueIds(g) :
          GetIssue(g.issues, id).status = "done" /\ OpenChildren(g, id) # {} }

\* c is done with the open child b, a is done without children: only c is named
C28_Witness ==
  /\ Named(validateInvariants(g), "parent") = {"c"}
  /\ IssueIds(g) = {"a", "b", "c"}
  /\ GetIssue(g.issues, "a").status = "done"
  /\ GetIssue(g.issues, "b").status = "open"
  /\ \E l \in AllLinks(g.outgoing) : l.type = "parent-child" /\ l.from = "c" /\ l.to = "b"

\* C29 (as claimed): the issue id named in a cycle violation of
\* validateInvariants lies on a cycle of 'blocks' edges
C29_NamedIdOnCycle ==
  \A id \in Named(validateInvariants(g), "cycle") : OnCycle(BlocksEdges(g), id)

----------------------------------------------------------------------------
(* Claims about the fast path of materialize() *)

\* state.json is a valid snapshot and heads.json records the sizes the two log
\* files have
SnapshotCurrent ==
  /\ readState(stateFile) # Null
  /\ metaFile # NoFile
  /\ readMeta(metaFile).issuesOffset = Len(issuesFile)
  /\ readMeta(metaFile).linksOffset = Len(linksFile)

\* where a materialize() stands that has not got past its reads
Reading == {"lockwait", "readMeta", "readState", "stat", "readTail"}

\* the call of m goes on reading, or ends its reads with the cached state as its
\* result, and the files stay as they are
ReturnsCachedUntouched(m) ==
  /\ UNCHANGED <<fileVars, snapVars>>
  /\ mpc'[m] \in Reading \cup {"finally", "idle"}
  /\ mpc'[m] = "finally" => mloc'[m].result = Ok(readState(stateFile))
  /\ (mpc[m] = "finally" /\ mpc'[m] = "idle") =>
       /\ mres'[m].kind = "ok"
       /\ mres'[m].value = readState(stateFile)

FastPathWritesNothing ==
  \A m \in Callers :
    (SnapshotCurrent /\ mpc[m] \in Reading \cup {"finally"}) => ReturnsCachedUntouched(m)

\* C30: a materialize() called, with no other call in progress, when state.json
\* is a valid snapshot and no line was appended to either log file since the
\* offsets in heads.json returns the cached state once it is past the lock, and
\* state.json, heads.json, the log files and the temporary files stay as they are
C30_FastPathWritesNothing == [][FastPathWritesNothing]_vars

\* a second materialize() found the snapshot of the first current, over a log
\* that is not empty, and is about to return the cached state
C30_Witness ==
  \E m \in Callers :
    /\ mpc[m] = "finally"
    /\ SnapshotCurrent
    /\ issuesFile # <<>> /\ linksFile # <<>>
    /\ mloc[m].cached = readState(stateFile)
    /\ mloc[m].cached # EmptyState
    /\ mloc[m].out = EmptyState
    /\ mloc[m].result = Ok(mloc[m].cached)
    /\ stateTmp = NoFile /\ metaTmp = NoFile

----------------------------------------------------------------------------
(* Claims about the error kinds of append() *)

\* the step of caller a's append() call the transition takes, if any
Stepped(a) == ares'[a] # ares[a] \/ apc'[a] # apc[a]

\* LockTimeout comes out of the wait for the lock only, from a call that does
\* not hold it
LockTimeoutOnlyUnlocked ==
  \A a \in Callers :
    (ares[a] # "LockTimeout" /\ ares'[a] = "LockTimeout")
      => /\ apc[a] = "lockwait"
         /\ lockOwner[pathOf(aev[a])] # a
         /\ lockOwner' = lockOwner

\* with the lock held, the write and sync step ends in ok, DiskFull or Corruption
WriteFailureKinds ==
  \A a \in Callers :
    (Stepped(a) /\ apc[a] = "locked")
      => /\ lockOwner[pathOf(aev[a])] = a
         /\ ares'[a] \in {"ok", "DiskFull", "Corruption"}

\* the validation and open step ends in ParseError, PermissionDenied or
\* Corruption, or goes on to the wait for the lock
OpenFailureKinds ==
  \A a \in Callers :
    (Stepped(a) /\ apc[a] = "idle")
      => \/ apc'[a] = "lockwait" /\ ares'[a] = "pending"
         \/ apc'[a] = "idle" /\ ares'[a] \in {"ParseError", "PermissionDenied", "Corruption"}

\* what the call returns is what its failing step set
ReturnsStepResult ==
  \A a \in Callers :
    (Stepped(a) /\ apc[a] \in {"unlockQueued", "finally"}) => ares'[a] = ares[a]

\* C32: append() returns LockTimeout only when the exclusive lock was not
\* obtained within lockTimeoutMs; a failure of the write or sync step after the
\* lock was obtained is reported as DiskFull or Corruption, and a failure to
\* open the file as PermissionDenied or Corruption, never as LockTimeout
C32_ErrorKindsByStep ==
  [][LockTimeoutOnlyUnlocked /\ WriteFailureKinds /\ OpenFailureKinds /\ ReturnsStepResult]_vars

\* one call is about to return DiskFull for a write under its lock, after the
\* other call returned LockTimeout
C32_Witness ==
  \E a, b \in Callers :
    /\ apc[a] = "finally" /\ ares[a] = "DiskFull" /\ lockOwner[pathOf(aev[a])] = a
    /\ apc[b] = "idle" /\ ares[b] = "LockTimeout"

----------------------------------------------------------------------------
(* Claims about the log files being append-only *)

\* the write step of caller a's append() adds the line of its event at the end
\* of the file its event type selects, and leaves the other file as it is
AddsOneLine(a) ==
  /\ apc[a] = "locked" /\ apc'[a] = "finally"
  /\ IF aev[a]._type \in IssueEventTypes
     THEN issuesFile' = Append(issuesFile, toLine(aev[a])) /\ linksFile' = linksFile
     ELSE linksFile' = Append(linksFile, toLine(aev[a])) /\ issuesFile' = issuesFile

\* a step of materialize() (scan() is its full-scan step) or of getExistingIds()
ReaderStep ==
  \/ \E m \in Callers : mpc'[m] # mpc[m] \/ mloc'[m] # mloc[m]
  \/ \E a \in Callers : apc[a] = "idle" /\ (apc'[a] = "creating" \/ aev'[a] = Creating({}))

LogOnlyGrows ==
  /\ UNCHANGED fileVars \/ \E a \in Callers : AddsOneLine(a)
  /\ ReaderStep => UNCHANGED fileVars

\* C33: no store operation changes bytes already in the log: append() only adds
\* one line at the end of the one file selected by the event type and leaves
\* the other file untouched, and scan(), materialize() and getExistingIds()
\* never modify issues.jsonl or links.jsonl
C33_LogAppendOnly == [][LogOnlyGrows]_vars

\* an addLink has just written its line at the end of links.jsonl, with
\* issues.jsonl holding its line and a snapshot written by a materialize()
C33_Witness ==
  \E a \in Callers :
    /\ apc[a] = "finally" /\ ares[a] = "ok"
    /\ aev[a]._type = "LinkAdded"
    /\ Len(issuesFile) = 1
    /\ Len(linksFile) > 0 /\ linksFile[Len(linksFile)] = toLine(aev[a])
    /\ readState(stateFile) # Null

----------------------------------------------------------------------------
(* Claims about the order of issue events and link events *)

\* the replay of the appended events in the order in which they were appended
AppendOrderReplay == materializeFromEvents(acked)

\* C34: although scan() lists all issue-file events before all link-file
\* events, materialize() on either store equals the state obtained by replaying
\* the events in their true append order: with calls made one after the other
\* and no failed file operation, the replay of scan() that the full-replay
\* store returns, and what every materialize() of the incremental store
\* returns, is the replay of the appended events in append order
C34_AppendOrderReplay ==
  ~track.faulted =>
    /\ Quiet => FullReplay = AppendOrderReplay
    /\ \A m \in Callers : Returning(m) => mloc[m].result.value = AppendOrderReplay

\* a link event was appended before an issue event, so scan() is not in append
\* order, and a materialize() on the incremental path returns a graph with both
C34_Witness ==
  \E m \in Callers :
    /\ Returning(m) /\ ~track.faulted
    /\ mloc[m].cached # Null
    /\ scan(issuesFile, linksFile).value # acked
    /\ acked[1]._type = "LinkAdded"
    /\ IssueIds(mloc[m].result.value) = {"a"}
    /\ AllLinks(mloc[m].result.value.outgoing) # {}
    /\ mloc[m].result.value = AppendOrderReplay

----------------------------------------------------------------------------
(* Claims about getExistingIds() *)

\* the ids of the IssueCreated events whose append() has returned ok
AckedIds == {acked[i].issue.id : i \in {k \in 1..Len(acked) : acked[k]._type = "IssueCreated"}}

(* C35 (as claimed): on the incremental store, getExistingIds() returns a   *)
(* set that contains the id of every IssueCreated whose append() returned   *)
(* ok before the call, including events appended after the last             *)
(* materialize(): the set createIssue gets from it holds every such id.     *)
C35_ExistingIdsComplete ==
  [][\A a \in Callers :
       (apc[a] = "idle" /\ apc'[a] = "creating") => AckedIds \subseteq aev'[a].existing]_vars

----------------------------------------------------------------------------
(* Claims about materialize() calls that overlap *)

(* C36 (as claimed): a materialize() call on the incremental store never    *)
(* returns an error only because another materialize() ran at the same      *)
(* time: with no I/O fault and a log written by append() alone, every       *)
(* materialize() of a concurrent run that got past its lock attempt         *)
(* returns ok.                                                              *)
C36_OverlapReturnsOk ==
  \A m \in Callers :
    (~track.faulted /\ mres[m].kind # "none" /\ mres[m].lock # "timedOut")
      => mres[m].kind = "ok"

----------------------------------------------------------------------------
(* Claims about a log file shorter than its recorded offset *)

\* the call read an offset for a log file that is past the size it measured
ReadPastEnd(m) ==
  \/ mloc[m].meta.issuesOffset > mloc[m].iSize
  \/ mloc[m].meta.linksOffset > mloc[m].lSize

(* C37 (as claimed): if a log file is shorter than the offset recorded for  *)
(* it, because it was truncated or reset since the last snapshot, the tail  *)
(* read starts at the current end of file and materialize() returns a       *)
(* state equal to a full replay of the log files as they now are.           *)
C37_TruncatedLogReplayed ==
  \A m \in Callers :
    (Returning(m) /\ ReadPastEnd(m)) => mloc[m].result.value = FullReplay

----------------------------------------------------------------------------
(* Claims about the locks of a call that has returned *)

(* C38 (as claimed): when append() or materialize() returns, with ok, with  *)
(* LockTimeout or with any other error, that call no longer holds, and will *)
(* not later come to hold, any advisory lock on the log files or on the     *)
(* lock file: a caller that is in no call holds no lock on a log file, and  *)
(* no lock on the lock file through a handle one of its calls opened.       *)
C38_NoLockAfterReturn ==
  /\ \A a \in Callers : apc[a] = "idle" => \A f \in DOMAIN lockOwner : lockOwner[f] # a
  /\ \A m \in Callers :
       mpc[m] = "idle" => mloc[m].lock # "held" /\ mloc[m].leaked # "held"

----------------------------------------------------------------------------
(* Claims about the two adjacency maps *)

\* the (from, to, type) of the links in outgoing, from being the key they are under
OutTriples(gs) ==
  UNION { { <<k, gs.outgoing[k][i].to, gs.outgoing[k][i].type>> :
              i \in 1..Len(gs.outgoing[k]) } : k \in DOMAIN gs.outgoing }

\* the (from, to, type) of the links in incoming, to being the key they are under
IncTriples(gs) ==
  UNION { { <<gs.incoming[k][i].from, k, gs.incoming[k][i].type>> :
              i \in 1..Len(gs.incoming[k]) } : k \in DOMAIN gs.incoming }

\* C39: in every Graph State reachable from the empty state by applyEvent, a
\* link with triple (from, to, type) is present in outgoing[from] if and only
\* if it is present in incoming[to]
C39_AdjacencyMirrored == OutTriples(g) = IncTriples(g)

\* a 'blocks' link from a to b was added and later removed, and two other
\* links are in both maps
C39_Witness ==
  /\ OutTriples(g) = {<<"a", "b", "related">>, <<"b", "a", "blocks">>}
  /\ IncTriples(g) = OutTriples(g)
  /\ \E i, j \in 1..Len(hist) :
       /\ i < j
       /\ hist[i]._type = "LinkAdded" /\ Triple(hist[i].link) = <<"a", "b", "blocks">>
       /\ hist[j]._type = "LinkRemoved" /\ hist[j].type = "blocks"

-----------------------------------------------------------------------------
(* Claims about events that are applied twice *)

\* the links of one adjacency list, without their order
LinkSet(links) == { links[i] : i \in 1..Len(links) }

\* how many times a link stands in an adjacency list
Occurs(links, l) == Cardinality({ i \in 1..Len(links) : links[i] = l })

\* two adjacency lists that hold the same links as often, in some order
SameLinks(xs, ys) ==
  \A l \in LinkSet(xs) \cup LinkSet(ys) : Occurs(xs, l) = Occurs(ys, l)

\* the same issues and, under every key, the same links in some order
SameUpToLinkOrder(s, t) ==
  /\ s.issues = t.issues
  /\ DOMAIN s.outgoing = DOMAIN t.outgoing
  /\ DOMAIN s.incoming = DOMAIN t.incoming
  /\ \A k \in DOMAIN s.outgoing : SameLinks(s.outgoing[k], t.outgoing[k])
  /\ \A k \in DOMAIN s.incoming : SameLinks(s.incoming[k], t.incoming[k])

(* C40: for every suffix T of the events applied so far, folding applyEvent *)
(* over T once more on the materialized state gives a state equal to it.    *)
C40_SuffixReplayIdempotent ==
  \A k \in 1..Len(hist) : ReplayFrom(g, hist, k) = g

(* C40 as it holds: for every suffix T of the events applied so far,        *)
(* folding applyEvent over T once more on the materialized state gives the  *)
(* same issues and, under every key of outgoing and of incoming, the same   *)
(* links, whose order within one list may differ.                           *)
C40_SuffixReplaySameLinks ==
  \A k \in 1..Len(hist) : SameUpToLinkOrder(ReplayFrom(g, hist, k), g)

\* a suffix of more than one event, begun after the first event, that removes
\* a link and adds it again behind another one: applied once more it leaves
\* the issues and the links as they were and changes the order of a list
C40_Witness ==
  \E k \in 2..Len(hist) :
    /\ hist[k]._type = "LinkRemoved"
    /\ \E j \in (k + 1)..Len(hist) : hist[j]._type = "LinkAdded"
    /\ ReplayFrom(g, hist, k) # g
    /\ SameUpToLinkOrder(ReplayFrom(g, hist, k), g)
    /\ Cardinality(AllLinks(g.outgoing)) >= 2

====
